---- MODULE Spec2Model ----
(***************************************************************************)
(* Retirement-duration solver of nwbirnie/financials.                      *)
(*                                                                         *)
(* Spec      the time-budgeted solver calculateSavingMonthsForRetirement   *)
(*           of src/unnamed/part_003 (validation, binary search over the   *)
(*           saving months, 4% short-circuit, adaptive Monte Carlo         *)
(*           evaluation with early exit, wall-clock budget).               *)
(* SpecFire  the solver of src/fire_calc.js (validation inside try, binary *)
(*           search with left <= right, catch-all returning [-2, 0, 0]).   *)
(*                                                                         *)
(* Numbers.  Money is in whole monetary units.  Rates, ratios and          *)
(* allocations are in thousandths (0.9 is 900, 4% is 40).  Ages are in     *)
(* years.  The first component of a returned tuple is in twelfths of a     *)
(* year, because the code returns savingMonths / 12: the months m are the  *)
(* value m/12 and the sentinels -1 and -2 are -12 and -24 twelfths.        *)
(* Elapsed time is in milliseconds.                                        *)
(***************************************************************************)
EXTENDS Integers, Sequences, FiniteSets, TLC

(***************************************************************************)
(* Bounds of the model.                                                    *)
(***************************************************************************)
\* maxSavingMonths ranges over 0..MaxMonths and the default of 600
MaxMonths == 5
\* largest number of clock advances of 14 seconds during one call
MaxTicks == 2

(***************************************************************************)
(* Program constants.                                                      *)
(***************************************************************************)
DefaultMaxSavingMonths == 600
TimeLimitMs == 27000
TerminalAge == 95
SafeWithdrawalRate == 40
CheckInterval == 100
MinSamples == 50

Twelfths(years) == 12 * years
\* [-1, 0, 0]
Infeasible == <<Twelfths(-1), 0, 0>>
\* [-2, 0, 0]
InternalError == <<Twelfths(-2), 0, 0>>
\* bestSolution = null, and the value of a call that has not returned
Null == <<>>

Min(a, b) == IF a < b THEN a ELSE b
Max(a, b) == IF a > b THEN a ELSE b

(***************************************************************************)
(* Inputs.                                                                 *)
(***************************************************************************)
BaseParams ==
  [ pensionBalance |-> 1500, taxFreeBalance |-> 1500,
    monthlyPensionSavings |-> 10, monthlyTaxFreeSavings |-> 10,
    annualReturn |-> 0, returnStdDev |-> 150,
    monthlyWithdrawalNeeded |-> 10, currentAge |-> 60,
    targetSuccessRate |-> 900, inflationRate |-> 25,
    withdrawalStrategy |-> 1, essentialExpenseRatio |-> 700,
    useBondTent |-> FALSE, maxSavingMonths |-> 4, simulations |-> 100,
    bondReturnRate |-> 30, bondVolatility |-> 50,
    stockAllocRetirement |-> 600, stockAllocLater |-> 400,
    glidePeriodYears |-> 10 ]

\* <<pensionBalance, taxFreeBalance>>
BalancePairs == { <<0, 0>>, <<1500, 1500>>, <<1500, 1480>>, <<4000, 4000>> }
\* <<monthlyPensionSavings, monthlyTaxFreeSavings>>
SavingsPairs == { <<0, 0>>, <<10, 10>> }
AnnualReturns == { -114, 0, 127 }
Ages == { 60, 90 }
SimulationCounts == { 100, 250 }

WithFields(b, s, r, a, m, n) ==
  [ BaseParams EXCEPT !.pensionBalance = b[1], !.taxFreeBalance = b[2],
                      !.monthlyPensionSavings = s[1],
                      !.monthlyTaxFreeSavings = s[2],
                      !.annualReturn = r, !.currentAge = a,
                      !.maxSavingMonths = m, !.simulations = n ]

\* searches over a few months
ShortSearchParams ==
  { WithFields(b, s, r, 60, m, n) :
      b \in BalancePairs, s \in SavingsPairs, r \in AnnualReturns,
      m \in 0 .. MaxMonths, n \in SimulationCounts }

\* searches over the default 600 months
LongSearchParams ==
  { WithFields(b, s, 0, a, DefaultMaxSavingMonths, 100) :
      b \in BalancePairs, s \in SavingsPairs, a \in Ages }

InRangeParams == ShortSearchParams \cup LongSearchParams

\* the same call with the glide path enabled and all its parameters in range
BondTentParams == { [ BaseParams EXCEPT !.useBondTent = TRUE ] }

\* one parameter outside its range, the glide path disabled
OutOfRangeParams ==
  { [ BaseParams EXCEPT !.pensionBalance = -1 ],
    [ BaseParams EXCEPT !.taxFreeBalance = -1 ],
    [ BaseParams EXCEPT !.monthlyPensionSavings = -1 ],
    [ BaseParams EXCEPT !.monthlyTaxFreeSavings = -1 ],
    [ BaseParams EXCEPT !.annualReturn = 600 ],
    [ BaseParams EXCEPT !.annualReturn = -600 ],
    [ BaseParams EXCEPT !.returnStdDev = -10 ],
    [ BaseParams EXCEPT !.returnStdDev = 1100 ],
    [ BaseParams EXCEPT !.monthlyWithdrawalNeeded = 0 ],
    [ BaseParams EXCEPT !.currentAge = 17 ],
    [ BaseParams EXCEPT !.currentAge = 91 ],
    [ BaseParams EXCEPT !.currentAge = 96 ],
    [ BaseParams EXCEPT !.targetSuccessRate = 0 ],
    [ BaseParams EXCEPT !.targetSuccessRate = 1100 ],
    [ BaseParams EXCEPT !.inflationRate = -10 ],
    [ BaseParams EXCEPT !.inflationRate = 500 ],
    [ BaseParams EXCEPT !.essentialExpenseRatio = -100 ],
    [ BaseParams EXCEPT !.essentialExpenseRatio = 1500 ],
    [ BaseParams EXCEPT !.withdrawalStrategy = 0 ],
    [ BaseParams EXCEPT !.withdrawalStrategy = 5 ] }

\* one glide-path parameter outside its range
BadBondTentFields ==
  { [ BaseParams EXCEPT !.bondReturnRate = 300 ],
    [ BaseParams EXCEPT !.bondVolatility = 600 ],
    [ BaseParams EXCEPT !.stockAllocRetirement = 1100 ],
    [ BaseParams EXCEPT !.stockAllocLater = -100 ],
    [ BaseParams EXCEPT !.glidePeriodYears = 31 ] }

BondTentOutOfRangeParams ==
  { [ p EXCEPT !.useBondTent = u ] : p \in BadBondTentFields, u \in BOOLEAN }

AllParams ==
  InRangeParams \cup BondTentParams \cup OutOfRangeParams
    \cup BondTentOutOfRangeParams

(***************************************************************************)
(* The random source.  A path's outcome is a function of the uniform draws *)
(* it consumes.  In mode "free" every path may succeed or fail.  In mode   *)
(* "monotone" the draws are such that every path of a candidate of at      *)
(* least `from` saving months succeeds and every path of a shorter         *)
(* candidate fails.                                                        *)
(***************************************************************************)
Free == [ mode |-> "free", from |-> 0 ]
Monotone(f) == [ mode |-> "monotone", from |-> f ]

\* the random sources a call with the arguments p is run with
RandomSources(p) ==
  IF p \in ShortSearchParams
    THEN { Free } \cup { Monotone(f) : f \in 0 .. p.maxSavingMonths + 1 }
  ELSE IF p \in LongSearchParams
    THEN { Monotone(f) : f \in { 0, 30, p.maxSavingMonths,
                                 p.maxSavingMonths + 1 } }
  ELSE { Free }

VARIABLES
  params,      \* the arguments of the call
  rng,         \* the random source (Math.random)
  pc,          \* "start", "loop" (loop boundary), "sims", "done"
  elapsed,     \* Date.now() - startTime
  low, high, bestSolution,
  savingMonths,
  expectedPensionAtRetirement, expectedTaxFreeAtRetirement,
  adaptiveSimulations, sim, successfulSimulations, failedSimulations,
  left, right, bestResult,   \* the search state of src/fire_calc.js
  result,      \* the returned tuple, Null until the call returns
  thrown,      \* "none", or the kind of the error that left the call
  faulted,     \* a fault was raised inside the call after validation
  log,         \* the candidates tested so far, with what was done to them
  path,        \* the locals of one simulated path (one turn of the sim loop)
  call,        \* one application of a helper function: arguments and value
  twin         \* what an earlier invocation with the same inputs returned

vars == << params, rng, pc, elapsed, low, high, bestSolution, savingMonths,
           expectedPensionAtRetirement, expectedTaxFreeAtRetirement,
           adaptiveSimulations, sim, successfulSimulations,
           failedSimulations, left, right, bestResult, result, thrown,
           faulted, log, path, call, twin >>

helperVars == << path, call, twin >>
NoPath == [pc |-> "none"]
NoCall == [fn |-> "none"]
NoTwin == [run |-> 1]

searchVars == << low, high, bestSolution >>
fireVars == << left, right, bestResult >>
candidateVars == << savingMonths, expectedPensionAtRetirement,
                    expectedTaxFreeAtRetirement, adaptiveSimulations, sim,
                    successfulSimulations, failedSimulations >>

(***************************************************************************)
(* Input validation of src/unnamed/part_003, in the order of the code.     *)
(***************************************************************************)
BondTentError(p) ==
  IF p.bondReturnRate < 0 \/ p.bondReturnRate > 200
    THEN "Bond return rate must be between 0% and 20%"
  ELSE IF p.bondVolatility < 0 \/ p.bondVolatility > 500
    THEN "Bond volatility must be between 0% and 50%"
  ELSE IF p.stockAllocRetirement < 0 \/ p.stockAllocRetirement > 1000
    THEN "Stock allocation at retirement must be between 0 and 1"
  ELSE IF p.stockAllocLater < 0 \/ p.stockAllocLater > 1000
    THEN "Stock allocation in later years must be between 0 and 1"
  ELSE IF p.glidePeriodYears < 0 \/ p.glidePeriodYears > 30
    THEN "Glide period must be between 0 and 30 years"
  ELSE "none"

ValidationError(p) ==
  IF p.pensionBalance < 0 \/ p.taxFreeBalance < 0
    THEN "Balances must be non-negative"
  ELSE IF p.monthlyPensionSavings < 0 \/ p.monthlyTaxFreeSavings < 0
    THEN "Savings amounts must be non-negative"
  ELSE IF p.annualReturn < -500 \/ p.annualReturn > 500
    THEN "Annual return must be between -50% and 50%"
  ELSE IF p.returnStdDev < 0 \/ p.returnStdDev > 1000
    THEN "Standard deviation must be between 0% and 100%"
  ELSE IF p.monthlyWithdrawalNeeded <= 0
    THEN "Monthly withdrawal must be positive"
  ELSE IF p.currentAge < 18 \/ p.currentAge > 90
    THEN "Current age must be between 18 and 90"
  ELSE IF p.targetSuccessRate < 100 \/ p.targetSuccessRate > 1000
    THEN "Success rate must be between 10% and 100%"
  ELSE IF p.withdrawalStrategy < 1 \/ p.withdrawalStrategy > 4
    THEN "Withdrawal strategy must be 1-4"
  ELSE IF p.useBondTent
    THEN BondTentError(p)
  ELSE "none"

(***************************************************************************)
(* The deterministic projection and the 4% short-circuit.                  *)
(***************************************************************************)
\* Math.pow(1 + annualReturn, 1/12) in thousandths, for the annual returns
\* of AnnualReturns: 0.886^(1/12) = 0.990, 1.127^(1/12) = 1.010
MonthlyGrowthFactor(annualReturn) ==
  CASE annualReturn = -114 -> 990
    [] annualReturn = 0    -> 1000
    [] annualReturn = 127  -> 1010

\* one pass of the loop body of lines 668-671:
\* expected = expected * monthlyGrowthFactor + monthlySavings,
\* the product rounded down to a whole unit
ProjectMonth(balance, monthlySavings, growth) ==
  (balance * growth) \div 1000 + monthlySavings

\* twelve passes of the loop body
ProjectYear(balance, s, g) ==
  LET m(b) == ProjectMonth(b, s, g)
  IN  m(m(m(m(m(m(m(m(m(m(m(m(balance))))))))))))

\* the loop of lines 668-671 run `months` times on the number `balance`
\* (whole years are taken twelve passes at a time, and the running value is
\* evaluated at every step, which keeps the evaluation shallow)
RECURSIVE ExpectedAtRetirement(_, _, _, _)
ExpectedAtRetirement(balance, monthlySavings, growth, months) ==
  IF months = 0 \/ balance \notin Int THEN balance
  ELSE IF months >= 12
    THEN ExpectedAtRetirement(ProjectYear(balance, monthlySavings, growth),
                              monthlySavings, growth, months - 12)
  ELSE ExpectedAtRetirement(ProjectMonth(balance, monthlySavings, growth),
                            monthlySavings, growth, months - 1)

\* ExpectedPension without the contributions
ExpectedPension_NoSavings(p, months) ==
  ExpectedAtRetirement(p.pensionBalance, 0,
                       MonthlyGrowthFactor(p.annualReturn), months)

ExpectedPension(p, months) ==
  ExpectedAtRetirement(p.pensionBalance, p.monthlyPensionSavings,
                       MonthlyGrowthFactor(p.annualReturn), months)

ExpectedTaxFree(p, months) ==
  ExpectedAtRetirement(p.taxFreeBalance, p.monthlyTaxFreeSavings,
                       MonthlyGrowthFactor(p.annualReturn), months)

\* RateAbove with the division by zero guarded as a rate of 0
RateAbove_ZeroTotalIsZeroRate(monthlyWithdrawalNeeded, expectedTotalValue, rate) ==
  IF expectedTotalValue = 0 THEN FALSE
  ELSE monthlyWithdrawalNeeded * 12 * 1000 > rate * expectedTotalValue

\* (monthlyWithdrawalNeeded * 12) / expectedTotalValue > rate, the rate in
\* thousandths; a positive number divided by 0 is Infinity
RateAbove(monthlyWithdrawalNeeded, expectedTotalValue, rate) ==
  IF expectedTotalValue = 0 THEN TRUE
  ELSE monthlyWithdrawalNeeded * 12 * 1000 > rate * expectedTotalValue

\* InstantFail with the ceiling at 5%
InstantFail_FivePercent(monthlyWithdrawalNeeded, expectedTotalValue) ==
  monthlyWithdrawalNeeded * 12 * 1000 > 50 * expectedTotalValue

\* expectedWithdrawalRate > 0.04
InstantFail(monthlyWithdrawalNeeded, expectedTotalValue) ==
  RateAbove(monthlyWithdrawalNeeded, expectedTotalValue, SafeWithdrawalRate)

\* Midpoint stepping one month up from low
Midpoint_NextMonth(lo, hi) == lo + 1

\* Math.floor((low + high) / 2)
Midpoint(lo, hi) == (lo + hi) \div 2

\* retirementStartAge >= 95, with retirementStartAge = currentAge + months/12
RetirementTooLate(currentAge, months) ==
  12 * currentAge + months >= 12 * TerminalAge

\* TimeExceeded against the host's 30 second ceiling
TimeExceeded_HostCeiling(ms) == ms > 30000

\* Date.now() - startTime > 27000
TimeExceeded(ms) == ms > TimeLimitMs

\* bestSolution || [-1, 0, 0]
BestOrInfeasible(best) == IF best = Null THEN Infeasible ELSE best

(***************************************************************************)
(* The adaptive simulation count and the early exit.                       *)
(***************************************************************************)
\* getAdaptiveSimulations, yearsToRetirement given in months
getAdaptiveSimulations(pensionBal, taxFreeBal, needed, baseSimulations, monthsToRetirement) ==
  LET totalBalance == pensionBal + taxFreeBal
      annualWithdrawal == needed * 12
      \* withdrawalRate = totalBalance > 0 ? annual / total : 1
      rateAtLeast(r) == IF totalBalance > 0
                          THEN annualWithdrawal * 1000 >= r * totalBalance
                          ELSE 1000 >= r
      rateAtMost(r)  == IF totalBalance > 0
                          THEN annualWithdrawal * 1000 <= r * totalBalance
                          ELSE 1000 <= r
  IN  IF monthsToRetirement < 24 THEN baseSimulations
      ELSE IF rateAtLeast(25) /\ rateAtMost(40) THEN baseSimulations
      ELSE IF ~ rateAtLeast(20)
        THEN Max(400, (baseSimulations * 4) \div 10)
      ELSE IF ~ rateAtLeast(25)
        THEN Max(600, (baseSimulations * 6) \div 10)
      ELSE baseSimulations

\* the borderline boost: savingMonths < 36 && expectedWithdrawalRate > 0.03
\* (simulations * 1.2 is whole for the counts of SimulationCounts)
BoostedSimulations(adaptive, months, needed, expectedTotalValue, simulations) ==
  IF months < 36 /\ RateAbove(needed, expectedTotalValue, 30)
    THEN Max(adaptive, Min(1200, (simulations * 12) \div 10))
    ELSE adaptive

\* shouldExitEarly with the margins of the two final-rate tests exchanged
shouldExitEarly_MarginsExchanged(successes, failures, totalSimulations, targetRate) ==
  LET completed == successes + failures
      remaining == totalSimulations - completed
  IN  IF completed < MinSamples THEN FALSE
      ELSE
        \/ /\ completed >= 100
           /\ \/ successes * 2000 < targetRate * completed
              \/ successes * 10000 > targetRate * 12 * completed
        \/ /\ completed >= 200
           /\ \/ successes * 100000 > targetRate * 95 * totalSimulations
              \/ (successes + remaining) * 100000
                   < targetRate * 105 * totalSimulations

shouldExitEarly(successes, failures, totalSimulations, targetRate) ==
  LET completed == successes + failures
      remaining == totalSimulations - completed
  IN  IF completed < MinSamples THEN FALSE
      ELSE
        \/ /\ completed >= 100
           /\ \/ successes * 2000 < targetRate * completed
              \/ successes * 10000 > targetRate * 12 * completed
        \/ /\ completed >= 200
           /\ \/ successes * 100000 > targetRate * 105 * totalSimulations
              \/ (successes + remaining) * 100000
                   < targetRate * 95 * totalSimulations

\* RateMeetsTarget with the comparison turned round
RateMeetsTarget_Inverted(successes, run, targetRate) ==
  run > 0 /\ successes * 1000 <= targetRate * run

\* successRate >= targetSuccessRate with successRate = successes / run;
\* 0 / 0 is NaN and NaN >= target is false
RateMeetsTarget(successes, run, targetRate) ==
  run > 0 /\ successes * 1000 >= targetRate * run

\* the early-exit check is made at sim = 100, 200, ...
AtCheckpoint(s) == s > 0 /\ s % CheckInterval = 0

\* BatchSuccesses with draws that are not tied to the random source
BatchSuccesses_Unseeded(source, months, n) == { 0, n }

\* the numbers of successes a batch of n paths of a candidate can produce
BatchSuccesses(source, months, n) ==
  IF source.mode = "monotone"
    THEN IF months >= source.from THEN { n } ELSE { 0 }
    ELSE { 0, (9 * n) \div 10, n }

ClockSteps == { 0, 14000 }
MaxElapsed == MaxTicks * 14000

(***************************************************************************)
(* The time-budgeted solver of src/unnamed/part_003.                       *)
(***************************************************************************)
Init ==
  /\ params \in AllParams
  /\ rng \in RandomSources(params)
  /\ pc = "start"
  /\ elapsed = 0
  /\ low = 0 /\ high = 0 /\ bestSolution = Null
  /\ savingMonths = 0
  /\ expectedPensionAtRetirement = 0 /\ expectedTaxFreeAtRetirement = 0
  /\ adaptiveSimulations = 0 /\ sim = 0
  /\ successfulSimulations = 0 /\ failedSimulations = 0
  /\ left = 0 /\ right = 0 /\ bestResult = Null
  /\ result = Null /\ thrown = "none" /\ faulted = FALSE
  /\ log = {}
  /\ path = NoPath /\ call = NoCall /\ twin = NoTwin

\* a candidate that was tested, and what the solver did with it
LogEntry(months, verdict, run, successes, total) ==
  [ months |-> months, verdict |-> verdict, run |-> run,
    successes |-> successes, total |-> total ]

\* lines 154-197 and 644-646: validation, then the search state
Validate ==
  /\ pc = "start"
  /\ IF ValidationError(params) # "none"
       THEN /\ pc' = "done"
            /\ thrown' = "validation"
            /\ UNCHANGED << low, high >>
       ELSE /\ pc' = "loop"
            /\ low' = 0
            /\ high' = params.maxSavingMonths
            /\ UNCHANGED thrown
  /\ UNCHANGED << params, rng, helperVars, elapsed, bestSolution, candidateVars,
                  fireVars, result, faulted, log >>

\* the value returned through  return bestSolution || [-1, 0, 0]
Return ==
  /\ pc' = "done"
  /\ result' = BestOrInfeasible(bestSolution)
  /\ UNCHANGED << params, rng, helperVars, elapsed, searchVars, candidateVars, fireVars,
                  thrown, faulted, log >>

\* line 648 false, lines 823-826: the search has converged
Converged ==
  /\ pc = "loop"
  /\ ~ (high - low > 1)
  /\ Return

\* lines 650-653: the time check at the loop boundary
TimeUp ==
  /\ pc = "loop"
  /\ high - low > 1
  /\ TimeExceeded(elapsed)
  /\ Return

\* the loop is entered and the time check passes
InLoop ==
  /\ pc = "loop"
  /\ high - low > 1
  /\ ~ TimeExceeded(elapsed)

\* lines 655-661: the candidate would retire at 95 or later
AgeCap ==
  /\ InLoop
  /\ LET mid == Midpoint(low, high) IN
       /\ RetirementTooLate(params.currentAge, mid)
       /\ savingMonths' = mid
       /\ high' = mid
       /\ log' = log \cup { LogEntry(mid, "ageCap", 0, 0, -1) }
  /\ UNCHANGED << params, rng, helperVars, pc, elapsed, low, bestSolution,
                  expectedPensionAtRetirement, expectedTaxFreeAtRetirement,
                  adaptiveSimulations, sim, successfulSimulations,
                  failedSimulations, fireVars, result, thrown, faulted >>

\* lines 663-681: the projection, and the 4% short-circuit taken
InstantFailStep ==
  /\ InLoop
  /\ LET mid == Midpoint(low, high)
         expP == ExpectedPension(params, mid)
         expT == ExpectedTaxFree(params, mid)
     IN
       /\ ~ RetirementTooLate(params.currentAge, mid)
       /\ InstantFail(params.monthlyWithdrawalNeeded, expP + expT)
       /\ savingMonths' = mid
       /\ expectedPensionAtRetirement' = expP
       /\ expectedTaxFreeAtRetirement' = expT
       /\ low' = mid
       /\ log' = log \cup { LogEntry(mid, "instantFail", 0, 0, expP + expT) }
  /\ UNCHANGED << params, rng, helperVars, pc, elapsed, high, bestSolution,
                  adaptiveSimulations, sim, successfulSimulations,
                  failedSimulations, fireVars, result, thrown, faulted >>

\* lines 663-697: the projection, the simulation count, the counters reset
StartSims ==
  /\ InLoop
  /\ LET mid == Midpoint(low, high)
         expP == ExpectedPension(params, mid)
         expT == ExpectedTaxFree(params, mid)
     IN
       /\ ~ RetirementTooLate(params.currentAge, mid)
       /\ ~ InstantFail(params.monthlyWithdrawalNeeded, expP + expT)
       /\ savingMonths' = mid
       /\ expectedPensionAtRetirement' = expP
       /\ expectedTaxFreeAtRetirement' = expT
       /\ adaptiveSimulations' =
            BoostedSimulations(
              getAdaptiveSimulations(expP, expT,
                                     params.monthlyWithdrawalNeeded,
                                     params.simulations, mid),
              mid, params.monthlyWithdrawalNeeded, expP + expT,
              params.simulations)
  /\ sim' = 0
  /\ successfulSimulations' = 0
  /\ failedSimulations' = 0
  /\ pc' = "sims"
  /\ UNCHANGED << params, rng, helperVars, elapsed, searchVars, fireVars, result, thrown,
                  faulted, log >>

\* the loop of line 699 goes on: sim < adaptiveSimulations and no early exit
SimsGoOn ==
  /\ sim < adaptiveSimulations
  /\ ~ ( /\ AtCheckpoint(sim)
         /\ shouldExitEarly(successfulSimulations, failedSimulations,
                            adaptiveSimulations, params.targetSuccessRate) )

\* lines 699-808: the paths up to the next early-exit check, each counted as
\* a success or a failure; the clock advances while they run
RunPaths ==
  /\ pc = "sims"
  /\ SimsGoOn
  /\ LET next == Min(adaptiveSimulations,
                     (sim \div CheckInterval + 1) * CheckInterval)
         n == next - sim
     IN \E k \in BatchSuccesses(rng, savingMonths, n) :
          /\ sim' = next
          /\ successfulSimulations' = successfulSimulations + k
          /\ failedSimulations' = failedSimulations + (n - k)
  /\ \E dt \in ClockSteps :
       /\ elapsed + dt <= MaxElapsed
       /\ elapsed' = elapsed + dt
  /\ UNCHANGED << params, rng, helperVars, pc, searchVars, savingMonths,
                  expectedPensionAtRetirement, expectedTaxFreeAtRetirement,
                  adaptiveSimulations, fireVars, result, thrown, faulted,
                  log >>

\* lines 810-820: the verdict of the candidate
Verdict ==
  /\ pc = "sims"
  /\ ~ SimsGoOn
  /\ LET run == successfulSimulations + failedSimulations IN
       IF RateMeetsTarget(successfulSimulations, run,
                          params.targetSuccessRate)
         THEN /\ bestSolution' = << savingMonths,
                                    expectedPensionAtRetirement,
                                    expectedTaxFreeAtRetirement >>
              /\ high' = savingMonths
              /\ low' = low
              /\ log' = log \cup
                   { LogEntry(savingMonths, "accepted", run,
                              successfulSimulations,
                              expectedPensionAtRetirement
                                + expectedTaxFreeAtRetirement) }
         ELSE /\ low' = savingMonths
              /\ UNCHANGED << high, bestSolution >>
              /\ log' = log \cup
                   { LogEntry(savingMonths, "rejected", run,
                              successfulSimulations,
                              expectedPensionAtRetirement
                                + expectedTaxFreeAtRetirement) }
  /\ pc' = "loop"
  /\ UNCHANGED << params, rng, helperVars, elapsed, candidateVars, fireVars, result,
                  thrown, faulted >>

\* an operation of the loop body raises (a BigInt balance makes line 669
\* raise a TypeError); lines 132-827 hold no try, so the error leaves the call
Fault ==
  /\ InLoop
  /\ ~ RetirementTooLate(params.currentAge, Midpoint(low, high))
  /\ faulted' = TRUE
  /\ thrown' = "internal"
  /\ pc' = "done"
  /\ UNCHANGED << params, rng, helperVars, elapsed, searchVars, candidateVars, fireVars,
                  result, log >>

Next ==
  \/ Validate
  \/ Converged
  \/ TimeUp
  \/ AgeCap
  \/ InstantFailStep
  \/ StartSims
  \/ RunPaths
  \/ Verdict
  \/ Fault

Spec == Init /\ [][Next]_vars

(***************************************************************************)
(* The solver of src/fire_calc.js.                                         *)
(***************************************************************************)
FireAges == { 60, 94 }
FireMaxSavingMonthsSet == (0 .. MaxMonths) \cup { 24 }

FireSearchParams ==
  { WithFields(b, s, 0, a, m, 100) :
      b \in { <<0, 0>>, <<4000, 4000>> }, s \in SavingsPairs,
      a \in FireAges, m \in FireMaxSavingMonthsSet }

FireParams ==
  FireSearchParams \cup BondTentParams \cup OutOfRangeParams
    \cup BondTentOutOfRangeParams

FireRandomSources(p) ==
  IF p \in FireSearchParams
    THEN { Free, Monotone(0), Monotone(2), Monotone(p.maxSavingMonths + 1) }
    ELSE { Free }

\* the monthly returns, in thousandths, the paths of a candidate draw while
\* accumulating
MonthlyDraws == { -10, 0, 10 }

\* lines 52-98, in the order of the code
FireValidationError(p) ==
  IF p.currentAge >= 95 \/ p.currentAge < 18
    THEN "Current age must be between 18 and 95"
  ELSE IF p.targetSuccessRate <= 0 \/ p.targetSuccessRate > 1000
    THEN "Target success rate must be between 0 and 1"
  ELSE IF p.annualReturn < -500 \/ p.annualReturn > 500
    THEN "Annual return must be between -50% and 50%"
  ELSE IF p.returnStdDev < 0 \/ p.returnStdDev > 1000
    THEN "Return standard deviation must be between 0 and 100%"
  ELSE IF p.monthlyWithdrawalNeeded <= 0
    THEN "Monthly withdrawal needed must be positive"
  ELSE IF p.pensionBalance < 0 \/ p.taxFreeBalance < 0
    THEN "Account balances cannot be negative"
  ELSE IF p.monthlyPensionSavings < 0 \/ p.monthlyTaxFreeSavings < 0
    THEN "Monthly savings cannot be negative"
  ELSE IF p.inflationRate < 0 \/ p.inflationRate > 200
    THEN "Inflation rate must be between 0% and 20%"
  ELSE IF p.essentialExpenseRatio < 0 \/ p.essentialExpenseRatio > 1000
    THEN "Essential expense ratio must be between 0 and 1"
  ELSE IF p.withdrawalStrategy < 1 \/ p.withdrawalStrategy > 4
    THEN "Withdrawal strategy must be 1-4"
  ELSE IF p.useBondTent
    THEN BondTentError(p)
  ELSE "none"

\* monthsToAge95 - savingMonths
WithdrawalMonths(p, months) == (TerminalAge - p.currentAge) * 12 - months

\* the numbers of successful paths simulateRetirement can count: with no
\* withdrawal month the loop of line 385 is not entered and every path
\* keeps simulationSuccess = true
FireSuccesses(source, p, months) ==
  IF WithdrawalMonths(p, months) <= 0
    THEN { p.simulations }
    ELSE BatchSuccesses(source, months, p.simulations)

\* successfulSimulations > 0 ? total / successfulSimulations : 0, every
\* successful path having accumulated the same balance
AverageAtRetirement(successes, balance) ==
  IF successes > 0 THEN (successes * balance) \div successes ELSE 0

\* lines 579-587
FireResult(best, maxSavingMonths) ==
  IF best # Null /\ best.monthsNeeded <= maxSavingMonths
    THEN << best.monthsNeeded, best.targetPensionBalance,
            best.targetTaxFreeBalance >>
    ELSE Infeasible

InitFire ==
  /\ params \in FireParams
  /\ rng \in FireRandomSources(params)
  /\ pc = "start"
  /\ elapsed = 0
  /\ low = 0 /\ high = 0 /\ bestSolution = Null
  /\ savingMonths = 0
  /\ expectedPensionAtRetirement = 0 /\ expectedTaxFreeAtRetirement = 0
  /\ adaptiveSimulations = 0 /\ sim = 0
  /\ successfulSimulations = 0 /\ failedSimulations = 0
  /\ left = 0 /\ right = 0 /\ bestResult = Null
  /\ result = Null /\ thrown = "none" /\ faulted = FALSE
  /\ log = {}
  /\ path = NoPath /\ call = NoCall /\ twin = NoTwin

fireFrame == << params, rng, helperVars, elapsed, searchVars,
                expectedPensionAtRetirement, expectedTaxFreeAtRetirement,
                adaptiveSimulations, sim, successfulSimulations,
                failedSimulations >>

\* lines 50-98 and 558-560; an error thrown by the validation is thrown
\* inside the try of line 50 and caught at line 589, which returns [-2, 0, 0]
FireValidate ==
  /\ pc = "start"
  /\ IF FireValidationError(params) # "none"
       THEN /\ pc' = "done"
            /\ result' = InternalError
            /\ UNCHANGED << left, right >>
       ELSE /\ pc' = "loop"
            /\ left' = 0
            /\ right' = params.maxSavingMonths
            /\ UNCHANGED result
  /\ UNCHANGED << fireFrame, savingMonths, bestResult, thrown, faulted, log >>

\* lines 562-577: one candidate, simulateRetirement (lines 347-555) included
FireCandidate ==
  /\ pc = "loop"
  /\ left <= right
  /\ LET mid == Midpoint(left, right) IN
     \E k \in FireSuccesses(rng, params, mid), draw \in MonthlyDraws :
       LET avgP == AverageAtRetirement(k,
                     ExpectedAtRetirement(params.pensionBalance,
                       params.monthlyPensionSavings, 1000 + draw, mid))
           avgT == AverageAtRetirement(k,
                     ExpectedAtRetirement(params.taxFreeBalance,
                       params.monthlyTaxFreeSavings, 1000 + draw, mid))
       IN
         /\ savingMonths' = mid
         /\ IF RateMeetsTarget(k, params.simulations,
                               params.targetSuccessRate)
              THEN /\ bestResult' =
                        [ monthsNeeded |-> mid,
                          successRate |-> << k, params.simulations >>,
                          targetPensionBalance |-> avgP,
                          targetTaxFreeBalance |-> avgT ]
                   /\ right' = mid - 1
                   /\ left' = left
                   /\ log' = log \cup
                        { LogEntry(mid, "accepted", params.simulations, k,
                                   avgP + avgT) }
              ELSE /\ left' = mid + 1
                   /\ UNCHANGED << right, bestResult >>
                   /\ log' = log \cup
                        { LogEntry(mid, "rejected", params.simulations, k,
                                   avgP + avgT) }
  /\ UNCHANGED << fireFrame, pc, result, thrown, faulted >>

\* lines 579-587
FireReturn ==
  /\ pc = "loop"
  /\ ~ (left <= right)
  /\ pc' = "done"
  /\ result' = FireResult(bestResult, params.maxSavingMonths)
  /\ UNCHANGED << fireFrame, savingMonths, fireVars, thrown, faulted, log >>

\* an operation inside the try raises; line 589 catches it
FireFault ==
  /\ pc = "loop"
  /\ left <= right
  /\ faulted' = TRUE
  /\ pc' = "done"
  /\ result' = InternalError
  /\ UNCHANGED << fireFrame, savingMonths, fireVars, thrown, log >>

NextFire ==
  \/ FireValidate
  \/ FireCandidate
  \/ FireReturn
  \/ FireFault

SpecFire == InitFire /\ [][NextFire]_vars

(***************************************************************************)
(* Vocabulary of the properties of the time-budgeted solver.               *)
(***************************************************************************)
\* the call passed validation and no fault was raised inside it
Sound == ValidationError(params) = "none" /\ ~ faulted

\* the call has returned a tuple
Returned == pc = "done" /\ thrown = "none"

\* the loop ended because high - low <= 1, not because of the time check
SearchCompleted == Returned /\ ~ (high - low > 1)

\* the time check ended the loop
TimedOut == Returned /\ high - low > 1 /\ TimeExceeded(elapsed)

\* the expected withdrawal rate of a candidate, 12 x monthly target over the
\* projected total, is strictly above 4% (infinite when the total is 0)
ExpectedRateAbove4(months) ==
  LET total == ExpectedPension(params, months)
                 + ExpectedTaxFree(params, months)
  IN  total = 0 \/ 12 * params.monthlyWithdrawalNeeded * 100 > 4 * total

\* the observed rate successes / run of a log entry is at least the target
ObservedRateMeetsTarget(e) ==
  e.run > 0 /\ e.successes * 1000 >= params.targetSuccessRate * e.run

\* under a monotone random source: the evaluator accepts the candidate
WouldAccept(months) ==
  /\ ~ RetirementTooLate(params.currentAge, months)
  /\ ~ ExpectedRateAbove4(months)
  /\ months >= rng.from

AcceptedMonths == { e.months : e \in { x \in log : x.verdict = "accepted" } }

----------------------------------------------------------------------------
(* C1: when the search returns a duration d, d was evaluated with an        *)
(* observed success rate >= target, d is the smallest of the accepted       *)
(* durations, and every evaluated duration shorter than d was rejected      *)
(* (short-circuited at 4%, or observed rate below target), for any verdicts.*)
C1_SmallestAccepted ==
  (Returned /\ result # Null /\ result # Infeasible) =>
    /\ \E e \in log : /\ e.months = result[1]
                      /\ e.verdict = "accepted"
                      /\ ObservedRateMeetsTarget(e)
    /\ \A m \in AcceptedMonths : result[1] <= m
    /\ \A e \in log :
         e.months < result[1] =>
           \/ /\ e.verdict = "instantFail"
              /\ ExpectedRateAbove4(e.months)
           \/ /\ e.verdict = "rejected"
              /\ ~ ObservedRateMeetsTarget(e)

\* a returned duration below a longer accepted one and above a rejected one
C1_Witness ==
  /\ Returned /\ result # Null /\ result # Infeasible
  /\ \E e \in log : e.verdict = "accepted" /\ e.months > result[1]
  /\ \E e \in log : e.verdict = "rejected" /\ e.months < result[1]

(* C2: when every candidate duration from 0 to maxSavingMonths would be     *)
(* accepted by the evaluator, the completed search returns duration 0.      *)
C2_ReturnsZeroWhenAllAccepted ==
  ( /\ SearchCompleted
    /\ Sound
    /\ rng.mode = "monotone"
    /\ \A d \in 0 .. params.maxSavingMonths : WouldAccept(d) )
  => result[1] = 0

(* C3: when the search completes and acceptance is monotone in the duration,*)
(* the result is [-1, 0, 0] only if no duration in 0..maxSavingMonths is    *)
(* accepted by the evaluator (so maxSavingMonths alone being accepted gives *)
(* maxSavingMonths / 12).                                                   *)
C3_InfeasibleOnlyIfNoneAccepted ==
  ( /\ SearchCompleted
    /\ Sound
    /\ result = Infeasible
    /\ rng.mode = "monotone"
    /\ \A d \in 0 .. params.maxSavingMonths - 1 :
         WouldAccept(d) => WouldAccept(d + 1) )
  => \A d \in 0 .. params.maxSavingMonths : ~ WouldAccept(d)

(* C4: with both starting balances 0 and both contributions 0 (and a        *)
(* positive target), no path simulation is ever run and the solver returns  *)
(* [-1, 0, 0], for every valid age and every maxSavingMonths.               *)
C4_NoFundsInfeasible ==
  ( /\ Sound
    /\ params.pensionBalance = 0 /\ params.taxFreeBalance = 0
    /\ params.monthlyPensionSavings = 0
    /\ params.monthlyTaxFreeSavings = 0 )
  => /\ pc # "sims"
     /\ sim = 0 /\ successfulSimulations + failedSimulations = 0
     /\ \A e \in log : e.run = 0 /\ e.verdict # "accepted"
     /\ bestSolution = Null
     /\ Returned => result = Infeasible

\* such a call returned after candidates were short-circuited
C4_Witness ==
  /\ Returned /\ Sound
  /\ params.pensionBalance = 0 /\ params.taxFreeBalance = 0
  /\ params.monthlyPensionSavings = 0 /\ params.monthlyTaxFreeSavings = 0
  /\ result = Infeasible
  /\ Cardinality({ e \in log : e.verdict = "instantFail" }) >= 2

(* C5 as stated: a candidate whose expected withdrawal rate is strictly     *)
(* above 4% is rejected with zero path simulations, is never the best       *)
(* solution, and the search continues with longer durations only.           *)
C5_Original ==
  \A e \in log :
    ExpectedRateAbove4(e.months) =>
      /\ e.run = 0
      /\ e.verdict # "accepted"
      /\ bestSolution # Null => bestSolution[1] # e.months
      /\ low >= e.months

(* C5 amended: a candidate whose expected withdrawal rate is strictly above *)
(* 4% is rejected with zero path simulations and is never the best          *)
(* solution; when its retirement start age is below 95 the search continues *)
(* with longer durations only (a candidate retiring at 95 or later is       *)
(* dropped by the age check first, and the search continues with shorter    *)
(* durations).                                                              *)
C5_ShortCircuit ==
  \A e \in log :
    ExpectedRateAbove4(e.months) =>
      /\ e.run = 0
      /\ e.verdict # "accepted"
      /\ bestSolution # Null => bestSolution[1] # e.months
      /\ ~ RetirementTooLate(params.currentAge, e.months) =>
           /\ e.verdict = "instantFail"
           /\ low >= e.months

\* a candidate whose rate is finite and above 4% was short-circuited, and a
\* later candidate was simulated
C5_Witness ==
  /\ \E e \in log : /\ e.verdict = "instantFail"
                    /\ e.total > 0
                    /\ ExpectedRateAbove4(e.months)
                    /\ low >= e.months
  /\ \E e \in log : e.run > 0

(* C6: once the elapsed time seen at a loop boundary exceeds the budget, no *)
(* further candidate is evaluated and the solver returns the best solution  *)
(* recorded so far, the shortest accepted one, unchanged.                   *)
C6_BudgetStopsSearch ==
  [][ (pc = "loop" /\ elapsed > TimeLimitMs) =>
        /\ pc' = "done"
        /\ log' = log
        /\ UNCHANGED << searchVars, candidateVars >>
        /\ bestSolution # Null =>
             /\ result' = bestSolution
             /\ \A m \in AcceptedMonths : result'[1] <= m ]_vars

\* the time check ended a search that was not converged and had a solution
C6_Witness ==
  /\ TimedOut
  /\ bestSolution # Null
  /\ result = bestSolution

(* C7: when the budget expires before any candidate has been accepted, the  *)
(* returned value differs from the infeasible result [-1, 0, 0].            *)
C7_AbortedDistinctFromInfeasible ==
  (TimedOut /\ bestSolution = Null) => result # Infeasible

\* every range the validation is documented to enforce: the checks of
\* part_003 and the inflation and essential-expense ranges
InDocumentedRange(p) ==
  /\ ValidationError(p) = "none"
  /\ p.inflationRate >= 0 /\ p.inflationRate <= 200
  /\ p.essentialExpenseRatio >= 0 /\ p.essentialExpenseRatio <= 1000

(* C8: an out-of-range value of any parameter class (ages, rates, ratios,   *)
(* strategy selector, glide-path parameters when enabled) raises a          *)
(* validation failure before any candidate is evaluated.                    *)
C8_OutOfRangeRejected ==
  (pc # "start" /\ ~ InDocumentedRange(params)) =>
    /\ pc = "done"
    /\ thrown = "validation"
    /\ log = {}

(* C10: a fault raised while a candidate is being evaluated is caught and   *)
(* the solver returns [-2, 0, 0] instead of letting it reach the caller.    *)
C10_FaultGivesSentinel ==
  (pc = "done" /\ faulted) => (thrown = "none" /\ result = InternalError)

(* C9: in src/fire_calc.js a call whose input fails range validation       *)
(* reaches the caller as a thrown validation error and is never reported    *)
(* as a numeric sentinel tuple such as [-2, 0, 0].                          *)
C9_ValidationErrorPropagates ==
  (pc = "done" /\ FireValidationError(params) # "none") =>
    (thrown = "validation" /\ result = Null)

(***************************************************************************)
(* The helper functions of src/unnamed/part_003.  Amounts of money are     *)
(* kept in twentieths of a monetary unit, so that the state pension of     *)
(* 915.40 a month is a whole number; rates and ratios are in thousandths   *)
(* and ages in months.  A product of an amount and a rate is rounded down  *)
(* to a twentieth.                                                         *)
(***************************************************************************)
Money(units) == 20 * units

\* amount * rate / 1000, split so that the product stays within 32 bits
Scale(amount, rate) ==
  (amount \div 1000) * rate + ((amount % 1000) * rate) \div 1000

UK_PENSION_ACCESS_AGE == 58
UK_STATE_PENSION_AGE == 68
UK_STATE_PENSION_MONTHLY_2024 == Money(915) + 8
UK_PENSION_TAX_FREE_PERCENT == 250
UK_PENSION_TAX_FREE_LIFETIME_LIMIT == Money(268275)
WITHDRAWAL_TOLERANCE == 20

personalAllowance == Money(12570)
basicRateThreshold == Money(50270)
higherRateThreshold == Money(125140)

\* the basic-rate branch: 20% of the taxable income
BasicRateTax(taxableIncome) == Scale(taxableIncome, 200)

\* the else branch: the whole basic band at 20%, then 40% of what lies in
\* the higher band
HigherRateTax_WholeIncome(taxableIncome) == Scale(taxableIncome, 400)
HigherRateTax(taxableIncome) ==
  LET higherRateIncome ==
        Min(taxableIncome - (basicRateThreshold - personalAllowance),
            higherRateThreshold - basicRateThreshold)
  IN  BasicRateTax(basicRateThreshold - personalAllowance)
        + Scale(higherRateIncome, 400)

\* 45% of the taxable income above the higher band
AdditionalRateTax(taxableIncome) ==
  IF taxableIncome > higherRateThreshold - personalAllowance
    THEN Scale(taxableIncome - (higherRateThreshold - personalAllowance), 450)
    ELSE 0

calculateUKIncomeTax(annualIncome) ==
  IF annualIncome <= personalAllowance THEN 0
  ELSE LET taxableIncome == annualIncome - personalAllowance
       IN  IF taxableIncome <= basicRateThreshold - personalAllowance
             THEN BasicRateTax(taxableIncome)
             ELSE HigherRateTax(taxableIncome)
                    + AdditionalRateTax(taxableIncome)

(***************************************************************************)
(* The tax calculator of src/unnamed/part_001, which tapers the personal   *)
(* allowance: the bands are widths there (basic 37700) and the allowance   *)
(* shrinks by one for every two of income above 100000.                    *)
(***************************************************************************)
personalAllowanceTaperThreshold == Money(100000)
personalAllowanceTaperRate == 500

TaperedPersonalAllowance(grossAnnualIncome) ==
  IF grossAnnualIncome > personalAllowanceTaperThreshold
    THEN LET excessIncome == grossAnnualIncome - personalAllowanceTaperThreshold
             allowanceReduction ==
               Min(personalAllowance,
                   Scale(excessIncome, personalAllowanceTaperRate))
         IN  Max(0, personalAllowance - allowanceReduction)
    ELSE personalAllowance

calculateUKIncomeTaxTapered(grossAnnualIncome) ==
  IF grossAnnualIncome <= 0 THEN 0
  ELSE LET taxableIncome ==
             Max(0, grossAnnualIncome
                      - TaperedPersonalAllowance(grossAnnualIncome))
           basicBand == Money(37700)
           higherRateBand ==
             higherRateThreshold - personalAllowance - basicBand
       IN  IF taxableIncome <= basicBand
             THEN Scale(taxableIncome, 200)
           ELSE IF taxableIncome <= higherRateThreshold - personalAllowance
             THEN Scale(basicBand, 200)
                    + Scale(taxableIncome - basicBand, 400)
           ELSE Scale(basicBand, 200) + Scale(higherRateBand, 400)
                  + Scale(taxableIncome - basicBand - higherRateBand, 450)

(***************************************************************************)
(* The tax calculator applied to one income.                               *)
(***************************************************************************)
MaxIncomeSteps == 60

BandEdges == { Money(12570), Money(50270), Money(100000), Money(125140) }

TaxIncomes ==
  { 0, 1, Money(1), Money(110000) }
    \cup { e + d : e \in BandEdges, d \in { -1, 0, 1 } }
    \cup { Money(2500 * k) : k \in 0..MaxIncomeSteps }

\* the solver is not running while a helper is applied on its own
SolverAtRest ==
  /\ params = BaseParams
  /\ rng = Free
  /\ pc = "start"
  /\ elapsed = 0
  /\ low = 0 /\ high = 0 /\ bestSolution = Null
  /\ savingMonths = 0
  /\ expectedPensionAtRetirement = 0 /\ expectedTaxFreeAtRetirement = 0
  /\ adaptiveSimulations = 0 /\ sim = 0
  /\ successfulSimulations = 0 /\ failedSimulations = 0
  /\ left = 0 /\ right = 0 /\ bestResult = Null
  /\ result = Null /\ thrown = "none" /\ faulted = FALSE
  /\ log = {}

solverVars == << params, rng, pc, elapsed, searchVars, candidateVars,
                 fireVars, result, thrown, faulted, log >>

InitTax ==
  /\ SolverAtRest
  /\ path = NoPath /\ twin = NoTwin
  /\ \E income \in TaxIncomes :
       call = [fn |-> "calculateUKIncomeTax", annualIncome |-> income,
               returned |-> FALSE]

TaxCall ==
  /\ call.fn = "calculateUKIncomeTax" /\ ~ call.returned
  /\ call' = [fn |-> call.fn, annualIncome |-> call.annualIncome,
              returned |-> TRUE,
              tax |-> calculateUKIncomeTax(call.annualIncome)]
  /\ UNCHANGED << solverVars, path, twin >>

NextTax == TaxCall

SpecTax == InitTax /\ [][NextTax]_vars

(***************************************************************************)
(* Properties of the tax calculator.                                       *)
(***************************************************************************)
\* the calculator has returned the tax on the income it was given
TaxReturned == call.fn = "calculateUKIncomeTax" /\ call.returned

(* C13: the tax of src/unnamed/part_003 is 0 for income 0 and for income   *)
(* equal to the personal allowance 12570, never falls when the income      *)
(* rises, and has no jump at 12570, 50270 and 125140: at each of them the  *)
(* branch below and the branch above give the same value.                  *)
C13_TaxContinuousMonotone ==
  TaxReturned =>
    LET income == call.annualIncome
        taxable == income - personalAllowance
    IN  /\ income \in { 0, personalAllowance } => call.tax = 0
        /\ \A lower \in TaxIncomes :
             lower <= income => calculateUKIncomeTax(lower) <= call.tax
        /\ calculateUKIncomeTax(income + 1) - call.tax \in { 0, 1 }
        /\ income = personalAllowance => call.tax = BasicRateTax(taxable)
        /\ income = basicRateThreshold =>
             /\ call.tax = BasicRateTax(taxable)
             /\ call.tax = HigherRateTax(taxable)
        /\ income = higherRateThreshold =>
             /\ call.tax = HigherRateTax(taxable)
             /\ AdditionalRateTax(taxable) = 0
             /\ AdditionalRateTax(taxable + Money(1)) = Scale(Money(1), 450)

C13_Witness ==
  /\ TaxReturned
  /\ call.annualIncome = basicRateThreshold
  /\ call.tax = Money(7540)

(* C18: the tax calculator of src/unnamed/part_003 tapers the allowance:   *)
(* above 100000 the allowance is 12570 less half the excess, not below 0,  *)
(* and the three bands are applied to the income less that allowance.      *)
C18_TaperApplied ==
  TaxReturned => call.tax = calculateUKIncomeTaxTapered(call.annualIncome)

(***************************************************************************)
(* The withdrawal allocator of src/unnamed/part_003.  An age is a number   *)
(* of months, and so is the time remaining to age 95; a pension ratio is   *)
(* in thousandths.                                                         *)
(***************************************************************************)
Abs(x) == IF x < 0 THEN 0 - x ELSE x

calculateStatePension(ageMonths) ==
  IF ageMonths >= 12 * UK_STATE_PENSION_AGE
    THEN UK_STATE_PENSION_MONTHLY_2024
    ELSE 0

Decision(pension, taxFree, tax, net, used) ==
  [pensionWithdrawal |-> pension, taxFreeWithdrawal |-> taxFree,
   totalTax |-> tax, netIncome |-> net, newTaxFreeUsed |-> used]

\* what a gross pension withdrawal leaves after tax: a quarter of it is
\* tax free while the lifetime allowance lasts, the rest is taxed on top of
\* the state pension
PensionNet(pensionWithdrawal, taxFreeUsed, statePension) ==
  LET remainingTaxFreeAllowance ==
        Max(0, UK_PENSION_TAX_FREE_LIFETIME_LIMIT - taxFreeUsed)
      potentialTaxFree == Scale(pensionWithdrawal, UK_PENSION_TAX_FREE_PERCENT)
      actualTaxFree == Min(potentialTaxFree, remainingTaxFreeAllowance)
      taxablePension == pensionWithdrawal - actualTaxFree
      totalTax == calculateUKIncomeTax(taxablePension + statePension)
      stateTax == calculateUKIncomeTax(statePension)
      pensionTax == Max(0, totalTax - stateTax)
  IN  [actualTaxFree |-> actualTaxFree, pensionTax |-> pensionTax,
       netFromPension |-> actualTaxFree + Max(0, taxablePension - pensionTax)]

BisectionSteps == 15

\* the upper end of the bisection: the balance, or one and a half times
\* the target
BisectionHigh(pensionBal, adjustedTarget) ==
  Min(pensionBal, Scale(adjustedTarget, 1500))

\* the loop of the bisection, from iteration i; gives the final low, high
RECURSIVE Bisect(_, _, _, _, _, _)
Bisect(lo, hi, i, adjustedTarget, taxFreeUsed, statePension) ==
  IF i >= BisectionSteps THEN << lo, hi >>
  ELSE LET pensionWithdrawal == (lo + hi) \div 2
           netFromPension ==
             PensionNet(pensionWithdrawal, taxFreeUsed,
                        statePension).netFromPension
       IN  IF Abs(netFromPension - adjustedTarget) < Money(1)
             THEN << lo, hi >>
           ELSE IF netFromPension < adjustedTarget
             THEN Bisect(pensionWithdrawal, hi, i + 1, adjustedTarget,
                         taxFreeUsed, statePension)
             ELSE Bisect(lo, pensionWithdrawal, i + 1, adjustedTarget,
                         taxFreeUsed, statePension)

\* pension first, the tax-free account for the shortfall
PensionFirstWithdrawal(pensionBal, taxFreeBal, adjustedTarget, statePension, taxFreeUsed) ==
  LET ends == Bisect(0, BisectionHigh(pensionBal, adjustedTarget), 0,
                     adjustedTarget, taxFreeUsed, statePension)
      pensionWithdrawal == Min(pensionBal, (ends[1] + ends[2]) \div 2)
      net == PensionNet(pensionWithdrawal, taxFreeUsed, statePension)
      shortfall == Max(0, adjustedTarget - net.netFromPension)
      taxFreeWithdrawal == Min(shortfall, taxFreeBal)
  IN  Decision(pensionWithdrawal, taxFreeWithdrawal, net.pensionTax,
               net.netFromPension + taxFreeWithdrawal + statePension,
               taxFreeUsed + net.actualTaxFree)

\* the allocator when the ratio search is not used
WithdrawalWithoutOptimization(pensionBal, taxFreeBal, targetIncome, ageMonths, taxFreeUsed) ==
  LET statePension == calculateStatePension(ageMonths) * 12
      adjustedTarget == Max(0, targetIncome - statePension)
  IN  IF adjustedTarget <= 0
        THEN Decision(0, 0, 0, statePension, taxFreeUsed)
      ELSE IF ageMonths < 12 * UK_PENSION_ACCESS_AGE
        THEN LET withdrawal == Min(adjustedTarget, taxFreeBal)
             IN  Decision(0, withdrawal, 0, withdrawal + statePension,
                          taxFreeUsed)
      ELSE PensionFirstWithdrawal(pensionBal, taxFreeBal, adjustedTarget,
                                  statePension, taxFreeUsed)

calculateWithdrawalWithRatio(pensionBal, taxFreeBal, targetIncome, ageMonths, taxFreeUsed, pensionRatio) ==
  LET ratio == Max(0, Min(1000, pensionRatio))
      statePension ==
        IF ageMonths >= 12 * UK_STATE_PENSION_AGE
          THEN UK_STATE_PENSION_MONTHLY_2024 * 12
          ELSE 0
      adjustedTarget == Max(0, targetIncome - statePension)
      targetPensionWithdrawal ==
        IF ratio > 0 /\ pensionBal > 0
          THEN Min(pensionBal, Scale(Scale(adjustedTarget, ratio), 1500))
          ELSE 0
      net == PensionNet(targetPensionWithdrawal, taxFreeUsed, statePension)
      shortfall == Max(0, adjustedTarget - net.netFromPension)
      targetTaxFreeWithdrawal == Min(shortfall, taxFreeBal)
  IN  IF pensionBal < 0 \/ taxFreeBal < 0 \/ targetIncome < 0
        THEN Decision(0, 0, 0, 0, taxFreeUsed)
      ELSE IF adjustedTarget <= 0 \/ pensionBal + taxFreeBal <= 0
        THEN Decision(0, 0, 0, statePension, taxFreeUsed)
      ELSE IF ageMonths < 12 * UK_PENSION_ACCESS_AGE
        THEN LET withdrawal == Min(adjustedTarget, taxFreeBal)
             IN  Decision(0, withdrawal, 0, withdrawal + statePension,
                          taxFreeUsed)
      ELSE Decision(targetPensionWithdrawal, targetTaxFreeWithdrawal,
                    net.pensionTax,
                    net.netFromPension + targetTaxFreeWithdrawal
                      + statePension,
                    taxFreeUsed + net.actualTaxFree)

\* amount * rate / 1000 rounded up: amount < x * rate / 1000 exactly when
\* amount < ScaleUp(x, rate), for whole amounts
ScaleUp(amount, rate) == 0 - Scale(0 - amount, rate)

\* amount * (1 + rate) ^ years, rounded down every year
RECURSIVE Compound(_, _, _)
Compound(amount, rate, years) ==
  IF years <= 0 \/ amount \notin Int THEN amount
  ELSE Compound(amount + Scale(amount, rate), rate, years - 1)

getStockAllocation(p, yearsIntoRetirement) ==
  IF ~ p.useBondTent THEN 1000
  ELSE IF yearsIntoRetirement <= 0 THEN p.stockAllocRetirement
  ELSE IF yearsIntoRetirement >= p.glidePeriodYears THEN p.stockAllocLater
  ELSE p.stockAllocRetirement
         + ((p.stockAllocLater - p.stockAllocRetirement)
              * yearsIntoRetirement) \div p.glidePeriodYears

\* the expected return of the portfolio in a year of retirement
ExpectedAnnualReturn(p, yearsIntoRetirement) ==
  IF p.useBondTent
    THEN LET stockAlloc == getStockAllocation(p, yearsIntoRetirement)
         IN  (p.annualReturn * stockAlloc
                + p.bondReturnRate * (1000 - stockAlloc)) \div 1000
    ELSE p.annualReturn

\* the test of the tolerance: net income below target * (1 - 0.02)
BelowTolerance_FivePercent(netIncome, targetAmount) ==
  netIncome < ScaleUp(targetAmount, 950)
BelowTolerance(netIncome, targetAmount) ==
  netIncome < ScaleUp(targetAmount, 1000 - WITHDRAWAL_TOLERANCE)

LookaheadYears == 25

\* the look-ahead of one ratio from year on; the value is the time survived
\* in months (the year of the failure, or the whole look-ahead)
RECURSIVE SimulateFrom(_, _, _, _, _, _, _, _, _)
SimulateFrom(year, tempPensionBal, tempTaxFreeBal, tempTaxFreeUsed, inflationAdjustedTarget, startAge, pensionRatio, simMonths, p) ==
  IF 12 * year >= simMonths THEN simMonths
  ELSE LET conservativeReturn == Scale(ExpectedAnnualReturn(p, year), 800)
           grownPensionBal ==
             tempPensionBal + Scale(tempPensionBal, conservativeReturn)
           grownTaxFreeBal ==
             tempTaxFreeBal + Scale(tempTaxFreeBal, conservativeReturn)
           withdrawal ==
             calculateWithdrawalWithRatio(grownPensionBal, grownTaxFreeBal,
               inflationAdjustedTarget, startAge + 12 * year,
               tempTaxFreeUsed, pensionRatio)
       IN  IF BelowTolerance(withdrawal.netIncome, inflationAdjustedTarget)
             THEN 12 * year
             ELSE SimulateFrom(year + 1,
                    Max(0, grownPensionBal - withdrawal.pensionWithdrawal),
                    Max(0, grownTaxFreeBal - withdrawal.taxFreeWithdrawal),
                    withdrawal.newTaxFreeUsed,
                    inflationAdjustedTarget
                      + Scale(inflationAdjustedTarget, p.inflationRate),
                    startAge, pensionRatio, simMonths, p)

simulateWithdrawalRatio(pensionBal, taxFreeBal, targetIncome, startAge, taxFreeUsed, pensionRatio, monthsRemaining, p) ==
  SimulateFrom(0, pensionBal, taxFreeBal, taxFreeUsed, targetIncome,
               startAge, pensionRatio,
               Min(monthsRemaining, 12 * LookaheadYears), p)

\* the ratios of the coarse grid, and the offsets of the refinement: the
\* loop adds 0.02 to -0.08 while the sum is <= 0.08, and the ninth sum is
\* 0.08000000000000002, so the last offset tried is 0.06
CoarseRatios == << 0, 100, 200, 300, 400, 500, 600, 700, 800, 900, 1000 >>
RefineOffsets == << -80, -60, -40, -20, 0, 20, 40, 60 >>

\* one pass over ratios from the k-th on: a ratio replaces the best one
\* when it survives strictly longer
RECURSIVE SearchRatios(_, _, _, _, _)
SearchRatios(ratios, k, bestRatio, bestYearsSurvived, c) ==
  IF k > Len(ratios) THEN bestRatio
  ELSE LET yearsSurvived ==
             simulateWithdrawalRatio(c.pensionBal, c.taxFreeBal,
               c.targetIncome, c.ageMonths, c.taxFreeUsed, ratios[k],
               c.monthsRemaining, c.p)
       IN  IF yearsSurvived > bestYearsSurvived
             THEN SearchRatios(ratios, k + 1, ratios[k], yearsSurvived, c)
             ELSE SearchRatios(ratios, k + 1, bestRatio, bestYearsSurvived, c)

refineOptimalRatio(c, bestRatio) ==
  SearchRatios([k \in 1..Len(RefineOffsets) |->
                  Max(0, Min(1000, bestRatio + RefineOffsets[k]))],
               1, bestRatio,
               simulateWithdrawalRatio(c.pensionBal, c.taxFreeBal,
                 c.targetIncome, c.ageMonths, c.taxFreeUsed, bestRatio,
                 c.monthsRemaining, c.p),
               c)

findOptimalWithdrawalRatio(pensionBal, taxFreeBal, targetIncome, ageMonths, taxFreeUsed, monthsRemaining, p) ==
  LET c == [pensionBal |-> pensionBal, taxFreeBal |-> taxFreeBal,
            targetIncome |-> targetIncome, ageMonths |-> ageMonths,
            taxFreeUsed |-> taxFreeUsed,
            monthsRemaining |-> monthsRemaining, p |-> p]
      bestRatio == SearchRatios(CoarseRatios, 1, 0, -1, c)
  IN  IF monthsRemaining <= 0 \/ pensionBal + taxFreeBal <= 0
        THEN WithdrawalWithoutOptimization(pensionBal, taxFreeBal,
               targetIncome, ageMonths, taxFreeUsed)
        ELSE calculateWithdrawalWithRatio(pensionBal, taxFreeBal,
               targetIncome, ageMonths, taxFreeUsed,
               refineOptimalRatio(c, bestRatio))

\* the ratio search is used from the pension access age on, with more than
\* five years to go and something in both accounts
UsesOptimization(pensionBal, taxFreeBal, targetIncome, ageMonths, monthsRemaining, useOptimization) ==
  /\ targetIncome - calculateStatePension(ageMonths) * 12 > 0
  /\ ageMonths >= 12 * UK_PENSION_ACCESS_AGE
  /\ useOptimization
  /\ monthsRemaining > 12 * 5
  /\ pensionBal > 0 /\ taxFreeBal > 0

calculateOptimalAnnualWithdrawal(pensionBal, taxFreeBal, targetIncome, ageMonths, taxFreeUsed, monthsRemaining, useOptimization, p) ==
  IF UsesOptimization(pensionBal, taxFreeBal, targetIncome, ageMonths,
                      monthsRemaining, useOptimization)
    THEN findOptimalWithdrawalRatio(pensionBal, taxFreeBal, targetIncome,
           ageMonths, taxFreeUsed, monthsRemaining, p)
    ELSE WithdrawalWithoutOptimization(pensionBal, taxFreeBal, targetIncome,
           ageMonths, taxFreeUsed)

(***************************************************************************)
(* The allocator applied to one set of arguments.                          *)
(***************************************************************************)
MaxTargetSteps == 6

AllocPensionBalances == { 0, Money(1000), Money(30000), Money(1000000) }
AllocTaxFreeBalances == { 0, Money(5000), Money(200000) }
AllocTargets == { Money(10800) } \cup { Money(20000 * k) : k \in 1..MaxTargetSteps }
AllocAges == { 12 * 50, 12 * 57 + 11, 12 * 58, 12 * 67, 12 * 68, 12 * 89 }
AllocTaxFreeUsed ==
  { 0, UK_PENSION_TAX_FREE_LIFETIME_LIMIT - Money(1000),
    UK_PENSION_TAX_FREE_LIFETIME_LIMIT }
AllocMonthsRemaining == { 0, 60, 66, 72 }
AllocParams == { [ BaseParams EXCEPT !.annualReturn = 70 ] }

InitAlloc ==
  /\ SolverAtRest
  /\ path = NoPath /\ twin = NoTwin
  /\ \E pensionBal \in AllocPensionBalances,
        taxFreeBal \in AllocTaxFreeBalances,
        targetIncome \in AllocTargets,
        ageMonths \in AllocAges,
        taxFreeUsed \in AllocTaxFreeUsed,
        monthsRemaining \in AllocMonthsRemaining,
        useOptimization \in BOOLEAN,
        p \in AllocParams :
       call = [fn |-> "calculateOptimalAnnualWithdrawal",
               pensionBal |-> pensionBal, taxFreeBal |-> taxFreeBal,
               targetIncome |-> targetIncome, ageMonths |-> ageMonths,
               taxFreeUsed |-> taxFreeUsed,
               monthsRemaining |-> monthsRemaining,
               useOptimization |-> useOptimization, p |-> p,
               returned |-> FALSE]

AllocCall ==
  /\ call.fn = "calculateOptimalAnnualWithdrawal" /\ ~ call.returned
  /\ call' = [fn |-> call.fn,
              pensionBal |-> call.pensionBal, taxFreeBal |-> call.taxFreeBal,
              targetIncome |-> call.targetIncome,
              ageMonths |-> call.ageMonths, taxFreeUsed |-> call.taxFreeUsed,
              monthsRemaining |-> call.monthsRemaining,
              useOptimization |-> call.useOptimization, p |-> call.p,
              returned |-> TRUE,
              decision |->
                calculateOptimalAnnualWithdrawal(call.pensionBal,
                  call.taxFreeBal, call.targetIncome, call.ageMonths,
                  call.taxFreeUsed, call.monthsRemaining,
                  call.useOptimization, call.p)]
  /\ UNCHANGED << solverVars, path, twin >>

NextAlloc == AllocCall

SpecAlloc == InitAlloc /\ [][NextAlloc]_vars

(***************************************************************************)
(* Properties of the allocator.                                            *)
(***************************************************************************)
\* the allocator has returned its decision
AllocReturned == call.fn = "calculateOptimalAnnualWithdrawal" /\ call.returned

\* the call took the bisection: pension access age reached, a target left
\* after the state pension, and the ratio search not used
OnBisectionPath ==
  /\ AllocReturned
  /\ call.ageMonths >= 12 * UK_PENSION_ACCESS_AGE
  /\ call.targetIncome > calculateStatePension(call.ageMonths) * 12
  /\ ~ ( /\ call.useOptimization
         /\ call.monthsRemaining > 12 * 5
         /\ call.pensionBal > 0 /\ call.taxFreeBal > 0 )

\* the target left after the state pension
CallAdjustedTarget ==
  Max(0, call.targetIncome - calculateStatePension(call.ageMonths) * 12)

\* what withdrawing gross from the pension leaves after tax in this call
CallNetFromPension(gross) ==
  PensionNet(gross, call.taxFreeUsed,
             calculateStatePension(call.ageMonths) * 12).netFromPension

\* the pension balance can fund the target net of tax on its own
PensionSufficient ==
  CallNetFromPension(call.pensionBal) >= CallAdjustedTarget

(* C20: on the bisection path, when the pension balance is large enough to *)
(* fund the target left after the state pension net of tax, the pension    *)
(* withdrawal returned nets within 1 monetary unit of that target and the  *)
(* tax-free account is not drawn (beyond the part of a unit the tolerance  *)
(* of the search leaves); the tax-free account is drawn only when the      *)
(* pension balance is insufficient.  This for every target and allowance   *)
(* used, the allowance fully used and the higher bands included.           *)
C20_BisectionMeetsTarget ==
  (OnBisectionPath /\ PensionSufficient) =>
    /\ Abs(CallNetFromPension(call.decision.pensionWithdrawal)
             - CallAdjustedTarget) <= Money(1)
    /\ call.decision.taxFreeWithdrawal <= Money(1)

(***************************************************************************)
(* The withdrawal strategies of src/unnamed/part_003.                      *)
(***************************************************************************)
\* performanceRatio < rate and performanceRatio > rate, where the ratio is
\* portfolioValue / expectedValue, and 1 when expectedValue is not positive
PerformanceBelow(portfolioValue, expectedValue, rate) ==
  IF expectedValue > 0
    THEN portfolioValue < ScaleUp(expectedValue, rate)
    ELSE 1000 < rate

PerformanceAbove(portfolioValue, expectedValue, rate) ==
  IF expectedValue > 0
    THEN portfolioValue > Scale(expectedValue, rate)
    ELSE 1000 > rate

getStrategyWithdrawalAmount(baseAmount, portfolioValue, initialValue, yearsElapsed, strategy, p) ==
  LET expectedValue ==
        Compound(initialValue, ExpectedAnnualReturn(p, yearsElapsed),
                 yearsElapsed)
  IN  CASE strategy = 2 ->
             IF PerformanceBelow(portfolioValue, expectedValue, 800)
               THEN Scale(baseAmount, 900)
             ELSE IF PerformanceAbove(portfolioValue, expectedValue, 1200)
               THEN Scale(baseAmount, 1100)
             ELSE baseAmount
        [] strategy = 4 ->
             IF PerformanceBelow(portfolioValue, expectedValue, 900)
               THEN Scale(baseAmount, p.essentialExpenseRatio)
               ELSE baseAmount
        [] OTHER -> baseAmount

RECURSIVE SumOf(_)
SumOf(returns) ==
  IF returns = << >> THEN 0 ELSE Head(returns) + SumOf(Tail(returns))

calculateCashBufferAmount(recentReturns, bearMarketMonths, targetAmount) ==
  IF Len(recentReturns) = 0 THEN 0
  ELSE LET total == SumOf(recentReturns)
           bufferMultiplier ==
             IF total < (0 - 100) * Len(recentReturns) THEN 500
             ELSE IF total < 0 THEN 250
             ELSE IF bearMarketMonths > 24 THEN 300
             ELSE IF bearMarketMonths > 12 THEN 150
             ELSE 0
       IN  Scale(targetAmount, bufferMultiplier)

\* the blend of a stock return and a bond return in a year of retirement
getAnnualPortfolioReturn(p, yearsIntoRetirement, stockReturn, bondReturn) ==
  LET stockAlloc == getStockAllocation(p, yearsIntoRetirement)
  IN  (stockReturn * stockAlloc + bondReturn * (1000 - stockAlloc))
        \div 1000

(***************************************************************************)
(* One simulated path: one turn of the sim loop of src/unnamed/part_003    *)
(* for a candidate the search simulates.  The parameters are in whole      *)
(* monetary units, the balances of the path in twentieths.  The returns    *)
(* drawn lie within 8.5 standard deviations of the mean, which the         *)
(* Box-Muller transform of lines 210-235 reaches; after MaxFreeDraws       *)
(* years the annual return drawn is the mean.                              *)
(***************************************************************************)
MaxPathMonths == 2
MaxFreeDraws == 2

MonthlyReturnDraws == { -1200, 0, 10 }
AnnualReturnDraws == { -1200, -990, 70 }
BondReturnDraws == { -20, 30 }

PathScenario(b, w, age, strategy, essential, inflation, tent) ==
  [ BaseParams EXCEPT
      !.pensionBalance = b[1], !.taxFreeBalance = b[2],
      !.monthlyPensionSavings = IF b[1] > 0 THEN 100 ELSE 0,
      !.monthlyTaxFreeSavings = IF b[2] > 0 THEN 100 ELSE 0,
      !.returnStdDev = 500, !.maxSavingMonths = DefaultMaxSavingMonths,
      !.monthlyWithdrawalNeeded = w, !.currentAge = age,
      !.withdrawalStrategy = strategy, !.essentialExpenseRatio = essential,
      !.inflationRate = inflation, !.useBondTent = tent ]

PathParams ==
  { PathScenario(<<150000, 150000>>, w, 89, s, 700, 25, FALSE) :
      w \in { 900, 920, 950 }, s \in 1..4 }
  \cup { PathScenario(<<300000, 0>>, w, 89, 1, 700, i, FALSE) :
           w \in { 900, 920, 950 }, i \in { 0, 25 } }
  \cup { PathScenario(<<0, 400000>>, 1000, 57, 4, e, 25, FALSE) :
           e \in { 0, 700 } }
  \cup { PathScenario(<<0, 300000>>, 920, 89, 1, 700, 0, FALSE),
         PathScenario(<<150000, 150000>>, 920, 89, 1, 700, 25, TRUE),
         PathScenario(<<2000000, 0>>, 5000, 85, 1, 700, 25, FALSE) }

\* the search runs paths for this candidate: it is a midpoint, it is not
\* dropped by the age check and not by the 4% check
CandidateSimulated(p, months) ==
  /\ ValidationError(p) = "none"
  /\ months > 0 /\ months < p.maxSavingMonths
  /\ ~ RetirementTooLate(p.currentAge, months)
  /\ ~ InstantFail(p.monthlyWithdrawalNeeded,
                   ExpectedPension(p, months) + ExpectedTaxFree(p, months))

\* retirementStartAge, and withdrawalYears = 95 - retirementStartAge, in
\* months
retirementStartAge(p, months) == 12 * p.currentAge + months
withdrawalYears(p, months) == 12 * TerminalAge - retirementStartAge(p, months)

NewPath(p) ==
  [pc |-> "accumulate", month |-> 0, year |-> 0,
   pensionBal |-> Money(p.pensionBalance),
   taxFreeBal |-> Money(p.taxFreeBalance),
   simulationSuccess |-> TRUE, pensionTaxFreeUsed |-> 0,
   recentReturns |-> << >>, bearMarketMonths |-> 0,
   initialTotalValue |-> 0, currentReturn |-> 0,
   targetAmount |-> 0, bufferAmount |-> 0,
   withdrawal |-> Decision(0, 0, 0, 0, 0), draws |-> 0]

InitPath ==
  /\ params \in PathParams
  /\ savingMonths \in 1..MaxPathMonths
  /\ CandidateSimulated(params, savingMonths)
  /\ rng = Free
  /\ pc = "sims"
  /\ elapsed = 0
  /\ low = 0 /\ high = params.maxSavingMonths /\ bestSolution = Null
  /\ expectedPensionAtRetirement = ExpectedPension(params, savingMonths)
  /\ expectedTaxFreeAtRetirement = ExpectedTaxFree(params, savingMonths)
  /\ adaptiveSimulations = params.simulations /\ sim = 0
  /\ successfulSimulations = 0 /\ failedSimulations = 0
  /\ left = 0 /\ right = 0 /\ bestResult = Null
  /\ result = Null /\ thrown = "none" /\ faulted = FALSE
  /\ log = {}
  /\ path = NewPath(params) /\ call = NoCall /\ twin = NoTwin

pathFrame == << params, rng, pc, elapsed, searchVars, savingMonths,
                expectedPensionAtRetirement, expectedTaxFreeAtRetirement,
                adaptiveSimulations, sim, fireVars, result, thrown, faulted,
                log, call, twin >>

\* the year loop goes on
InYearLoop ==
  /\ 12 * path.year < withdrawalYears(params, savingMonths)
  /\ path.simulationSuccess

\* the returns generateAnnualReturn can give this year
StockDraws == IF path.draws < MaxFreeDraws THEN AnnualReturnDraws
              ELSE { params.annualReturn }
BondDrawsNow ==
  IF ~ params.useBondTent THEN { 0 }
  ELSE IF path.draws < MaxFreeDraws THEN BondReturnDraws
  ELSE { params.bondReturnRate }

\* one month of the accumulation loop
Accumulate ==
  /\ path.pc = "accumulate" /\ path.month < savingMonths
  /\ \E currentReturn \in MonthlyReturnDraws :
       path' = [ path EXCEPT
         !.month = @ + 1,
         !.pensionBal = @ + Scale(@, currentReturn)
                          + Money(params.monthlyPensionSavings),
         !.taxFreeBal = @ + Scale(@, currentReturn)
                          + Money(params.monthlyTaxFreeSavings) ]
  /\ UNCHANGED << pathFrame, successfulSimulations, failedSimulations >>

\* the locals of the withdrawal phase are set up
Retire ==
  /\ path.pc = "accumulate" /\ path.month = savingMonths
  /\ path' = [ path EXCEPT
       !.pc = "return", !.year = 0,
       !.simulationSuccess = TRUE, !.pensionTaxFreeUsed = 0,
       !.recentReturns = << >>, !.bearMarketMonths = 0,
       !.initialTotalValue = path.pensionBal + path.taxFreeBal ]
  /\ UNCHANGED << pathFrame, successfulSimulations, failedSimulations >>

\* a year of the withdrawal phase begins: the annual return is applied
ApplyReturn ==
  /\ path.pc = "return" /\ InYearLoop
  /\ \E stockReturn \in StockDraws, bondReturn \in BondDrawsNow :
       LET currentReturn ==
             IF params.useBondTent
               THEN getAnnualPortfolioReturn(params, path.year, stockReturn,
                                             bondReturn)
               ELSE stockReturn
       IN  path' = [ path EXCEPT
             !.pc = "allocate",
             !.currentReturn = currentReturn,
             !.pensionBal = @ + Scale(@, currentReturn),
             !.taxFreeBal = @ + Scale(@, currentReturn),
             !.draws = Min(@ + 1, MaxFreeDraws) ]
  /\ UNCHANGED << pathFrame, successfulSimulations, failedSimulations >>

\* the target of the year, the buffer and the decision of the allocator
Allocate ==
  /\ path.pc = "allocate"
  /\ LET annualInflationAdjustedWithdrawal ==
           Compound(Money(params.monthlyWithdrawalNeeded) * 12,
                    params.inflationRate, path.year)
         targetAmount ==
           getStrategyWithdrawalAmount(annualInflationAdjustedWithdrawal,
             path.pensionBal + path.taxFreeBal, path.initialTotalValue,
             path.year, params.withdrawalStrategy, params)
         bufferAmount ==
           IF params.withdrawalStrategy = 3
             THEN calculateCashBufferAmount(path.recentReturns,
                    path.bearMarketMonths, targetAmount)
             ELSE 0
         withdrawal ==
           calculateOptimalAnnualWithdrawal(path.pensionBal, path.taxFreeBal,
             targetAmount,
             retirementStartAge(params, savingMonths) + 12 * path.year,
             path.pensionTaxFreeUsed,
             withdrawalYears(params, savingMonths) - 12 * path.year,
             TRUE, params)
     IN  path' = [ path EXCEPT
           !.pc = "settle", !.targetAmount = targetAmount,
           !.bufferAmount = bufferAmount, !.withdrawal = withdrawal ]
  /\ UNCHANGED << pathFrame, successfulSimulations, failedSimulations >>

\* the income is tested against the target; the path fails and leaves the
\* loop, or the withdrawals are taken and the year ends
Settle ==
  /\ path.pc = "settle"
  /\ IF BelowTolerance(path.withdrawal.netIncome + path.bufferAmount,
                       path.targetAmount)
       THEN path' = [ path EXCEPT !.simulationSuccess = FALSE,
                                  !.pc = "count" ]
       ELSE path' = [ path EXCEPT
              !.pc = "return", !.year = @ + 1,
              !.pensionBal = Max(0, @ - path.withdrawal.pensionWithdrawal),
              !.taxFreeBal = Max(0, @ - path.withdrawal.taxFreeWithdrawal),
              !.pensionTaxFreeUsed = path.withdrawal.newTaxFreeUsed,
              !.bearMarketMonths =
                 IF path.currentReturn < 0 - 100
                   THEN Min(@ + 12, 36)
                   ELSE Max(@ - 6, 0),
              !.recentReturns =
                 IF Len(@) >= 3
                   THEN Tail(Append(@, path.currentReturn))
                   ELSE Append(@, path.currentReturn) ]
  /\ UNCHANGED << pathFrame, successfulSimulations, failedSimulations >>

\* the year loop ends at age 95
EndOfPath ==
  /\ path.pc = "return" /\ ~ InYearLoop
  /\ path' = [ path EXCEPT !.pc = "count" ]
  /\ UNCHANGED << pathFrame, successfulSimulations, failedSimulations >>

\* the path is counted
Count ==
  /\ path.pc = "count"
  /\ IF path.simulationSuccess
       THEN /\ successfulSimulations' = successfulSimulations + 1
            /\ UNCHANGED failedSimulations
       ELSE /\ failedSimulations' = failedSimulations + 1
            /\ UNCHANGED successfulSimulations
  /\ path' = [ path EXCEPT !.pc = "done" ]
  /\ UNCHANGED pathFrame

NextPath ==
  \/ Accumulate
  \/ Retire
  \/ ApplyReturn
  \/ Allocate
  \/ Settle
  \/ EndOfPath
  \/ Count

SpecPath == InitPath /\ [][NextPath]_vars

(***************************************************************************)
(* Properties of the simulated path.                                       *)
(***************************************************************************)
\* the age reached in the current year of the withdrawal phase, in months
CurrentRetirementAge ==
  retirementStartAge(params, savingMonths) + 12 * path.year

\* the allocator has just returned its decision for the balances and the
\* allowance that the path still holds
Decided == path.pc = "settle"

(* C11: in every simulated path, after every accumulation month and after  *)
(* every year of the withdrawal phase, both after the return is applied    *)
(* and after the withdrawal is applied, the pension balance and the        *)
(* tax-free balance are >= 0, whatever the return drawn, a return below    *)
(* -100% included.                                                         *)
C11_BalancesNeverNegative ==
  path.pc # "none" => path.pensionBal >= 0 /\ path.taxFreeBal >= 0

(* C12: in every decision of the allocator the pension withdrawal does not *)
(* exceed the pension balance passed in and the tax-free withdrawal does   *)
(* not exceed the tax-free balance passed in.                              *)
C12_WithdrawalWithinBalance ==
  Decided =>
    /\ path.withdrawal.pensionWithdrawal <= path.pensionBal
    /\ path.withdrawal.taxFreeWithdrawal <= path.taxFreeBal

(* C15: along every simulated path the allowance used, pensionTaxFreeUsed, *)
(* never decreases from one year to the next and never exceeds 268275,     *)
(* also in years where a balance is negative after a return below -100%.   *)
C15_AllowanceMonotoneBounded ==
  [][ /\ path'.pensionTaxFreeUsed >= path.pensionTaxFreeUsed
      /\ path'.pensionTaxFreeUsed <= UK_PENSION_TAX_FREE_LIFETIME_LIMIT
    ]_vars

\* the total net income of the year is below target * (1 - 0.02)
IncomeShort ==
  /\ Decided
  /\ path.withdrawal.netIncome + path.bufferAmount
       < ScaleUp(path.targetAmount, 980)

(* C16: in a year where the total net income is below target * (1 - 0.02)  *)
(* the path is marked failed in that year, no balance or allowance update  *)
(* is applied for the year, no later year of the path is simulated, and    *)
(* the path is counted exactly once, as a failure.                         *)
C16_ShortfallFailsPath ==
  [][ /\ IncomeShort =>
           /\ ~ path'.simulationSuccess
           /\ path'.pensionBal = path.pensionBal
           /\ path'.taxFreeBal = path.taxFreeBal
           /\ path'.pensionTaxFreeUsed = path.pensionTaxFreeUsed
      /\ (path.pc # "none" /\ ~ path.simulationSuccess) =>
           /\ path.pc \in { "count", "done" }
           /\ path'.pc = "done"
           /\ path'.year = path.year
           /\ path'.pensionBal = path.pensionBal
           /\ path'.taxFreeBal = path.taxFreeBal
           /\ path'.pensionTaxFreeUsed = path.pensionTaxFreeUsed
           /\ ~ path'.simulationSuccess
           /\ failedSimulations = 0 /\ failedSimulations' = 1
           /\ successfulSimulations' = 0
    ]_vars

C16_Witness ==
  /\ path.pc = "done"
  /\ ~ path.simulationSuccess
  /\ path.year >= 1
  /\ path.withdrawal.netIncome + path.bufferAmount
       < ScaleUp(path.targetAmount, 980)
  /\ failedSimulations = 1 /\ successfulSimulations = 0

(* C17: a path in which the pension balance and the tax-free balance are   *)
(* both zero at the end of a year before age 95 is marked failed, even     *)
(* when the state pension alone covers the target of the remaining years.  *)
C17_DepletedPathFails ==
  ( /\ path.pc = "return"
    /\ path.year >= 1
    /\ 12 * path.year < withdrawalYears(params, savingMonths)
    /\ path.pensionBal = 0 /\ path.taxFreeBal = 0 )
  => ~ path.simulationSuccess

(* C19: for every call of the allocator with age below 58 the decision has *)
(* pension withdrawal 0, tax 0, the allowance used unchanged, and a        *)
(* tax-free withdrawal equal to the smaller of the target left after the   *)
(* state pension and the tax-free balance.                                 *)
C19_BelowAccessAgeTaxFreeOnly ==
  (Decided /\ CurrentRetirementAge < 12 * 58) =>
    /\ path.withdrawal.pensionWithdrawal = 0
    /\ path.withdrawal.totalTax = 0
    /\ path.withdrawal.newTaxFreeUsed = path.pensionTaxFreeUsed
    /\ path.withdrawal.taxFreeWithdrawal =
         Min(Max(0, path.targetAmount
                      - calculateStatePension(CurrentRetirementAge) * 12),
             path.taxFreeBal)

(***************************************************************************)
(* Two invocations of the time-budgeted solver, one after the other, with  *)
(* the same arguments and the same random source.  The caller keeps what   *)
(* the first invocation gave; each invocation reads its own clock.         *)
(***************************************************************************)
\* the seeded random sources a call with the arguments p is run with
SeededSources(p) == { s \in RandomSources(p) : s.mode = "monotone" }

InitTwin ==
  /\ params \in InRangeParams
  /\ rng \in SeededSources(params)
  /\ pc = "start"
  /\ elapsed = 0
  /\ low = 0 /\ high = 0 /\ bestSolution = Null
  /\ savingMonths = 0
  /\ expectedPensionAtRetirement = 0 /\ expectedTaxFreeAtRetirement = 0
  /\ adaptiveSimulations = 0 /\ sim = 0
  /\ successfulSimulations = 0 /\ failedSimulations = 0
  /\ left = 0 /\ right = 0 /\ bestResult = Null
  /\ result = Null /\ thrown = "none" /\ faulted = FALSE
  /\ log = {}
  /\ path = NoPath /\ call = NoCall /\ twin = NoTwin

\* the first invocation has returned or thrown; the caller keeps its outcome
\* and calls again: line 132 is entered with the same arguments, and
\* startTime of line 644 is read anew
Restart ==
  /\ pc = "done"
  /\ twin.run = 1
  /\ twin' = [ run |-> 2, result |-> result, thrown |-> thrown,
               cutShort |-> (thrown = "none" /\ high - low > 1) ]
  /\ pc' = "start"
  /\ elapsed' = 0
  /\ low' = 0 /\ high' = 0 /\ bestSolution' = Null
  /\ savingMonths' = 0
  /\ expectedPensionAtRetirement' = 0 /\ expectedTaxFreeAtRetirement' = 0
  /\ adaptiveSimulations' = 0 /\ sim' = 0
  /\ successfulSimulations' = 0 /\ failedSimulations' = 0
  /\ result' = Null /\ thrown' = "none"
  /\ log' = {}
  /\ UNCHANGED << params, rng, path, call, fireVars, faulted >>

NextTwin ==
  \/ Validate
  \/ Converged
  \/ TimeUp
  \/ AgeCap
  \/ InstantFailStep
  \/ StartSims
  \/ RunPaths
  \/ Verdict
  \/ Restart

SpecTwin == InitTwin /\ [][NextTwin]_vars

\* the second invocation has ended
BothEnded == twin.run = 2 /\ pc = "done"

\* the invocation that has just ended was ended by the time check of lines
\* 650-653: it returned while high - low > 1
CutShort == thrown = "none" /\ high - low > 1

MaxRatioSteps == 20

StrategyBaseAmounts == { Money(10800), Money(12000) }
StrategyInitialValues == { Money(300000) }
StrategyYears == { 0, 1, 5 }
\* performance ratios 0, 0.1, ..., and the thresholds one thousandth either side
StrategyRatios ==
  { 100 * k : k \in 0 .. MaxRatioSteps } \cup { 799, 801, 899, 901, 1199, 1201 }
EssentialRatios == { 0, 250, 700, 1000 }

StrategyParams ==
  { [ BaseParams EXCEPT !.essentialExpenseRatio = e, !.useBondTent = t ] :
      e \in EssentialRatios, t \in BOOLEAN }

InitStrategy ==
  /\ SolverAtRest
  /\ path = NoPath /\ twin = NoTwin
  /\ \E baseAmount \in StrategyBaseAmounts,
        initialValue \in StrategyInitialValues,
        yearsElapsed \in StrategyYears,
        ratio \in StrategyRatios,
        strategy \in 1 .. 4,
        p \in StrategyParams :
       LET expectedValue ==
             Compound(initialValue, ExpectedAnnualReturn(p, yearsElapsed),
                      yearsElapsed)
       IN  call = [fn |-> "getStrategyWithdrawalAmount",
                   baseAmount |-> baseAmount,
                   portfolioValue |-> Scale(expectedValue, ratio),
                   initialValue |-> initialValue,
                   yearsElapsed |-> yearsElapsed,
                   strategy |-> strategy, p |-> p,
                   expectedValue |-> expectedValue,
                   returned |-> FALSE]

StrategyCall ==
  /\ call.fn = "getStrategyWithdrawalAmount" /\ ~ call.returned
  /\ call' = [fn |-> call.fn,
              baseAmount |-> call.baseAmount,
              portfolioValue |-> call.portfolioValue,
              initialValue |-> call.initialValue,
              yearsElapsed |-> call.yearsElapsed,
              strategy |-> call.strategy, p |-> call.p,
              expectedValue |-> call.expectedValue,
              returned |-> TRUE,
              amount |->
                getStrategyWithdrawalAmount(call.baseAmount,
                  call.portfolioValue, call.initialValue, call.yearsElapsed,
                  call.strategy, call.p)]
  /\ UNCHANGED << solverVars, path, twin >>

NextStrategy == StrategyCall

SpecStrategy == InitStrategy /\ [][NextStrategy]_vars

\* the policy has returned the adjusted withdrawal
StrategyReturned == call.fn = "getStrategyWithdrawalAmount" /\ call.returned

(* C21: under withdrawal policy 4 the adjusted withdrawal is at least the   *)
(* essential part plus 50% of the discretionary remainder and at most the   *)
(* essential part plus 130% of it, where the essential part is the target   *)
(* times the essential-expense ratio; with the portfolio exactly on its     *)
(* expected value the target is unchanged.                                  *)
C21_DiscretionaryBounded ==
  (StrategyReturned /\ call.strategy = 4) =>
    LET essential == Scale(call.baseAmount, call.p.essentialExpenseRatio)
        discretionary == call.baseAmount - essential
    IN  /\ call.amount >= essential + Scale(discretionary, 500)
        /\ call.amount <= essential + Scale(discretionary, 1300)
        /\ call.portfolioValue = call.expectedValue =>
             call.amount = call.baseAmount

(***************************************************************************)
(* Properties of the evaluation of one candidate by the time-budgeted      *)
(* solver.                                                                 *)
(***************************************************************************)
\* a candidate is being evaluated: its simulation count has been chosen
Evaluating == pc = "sims"

\* the projected total of the candidate under evaluation
ExpectedTotal == expectedPensionAtRetirement + expectedTaxFreeAtRetirement

\* the expected withdrawal rate of the candidate under evaluation lies in the
\* borderline band [2.5%, 4%]
RateBorderline ==
  /\ ExpectedTotal > 0
  /\ 12 * params.monthlyWithdrawalNeeded * 1000 >= 25 * ExpectedTotal
  /\ 12 * params.monthlyWithdrawalNeeded * 1000 <= 40 * ExpectedTotal

(* C22: the number of path simulations chosen for an evaluated candidate    *)
(* equals the requested base count when the accumulation horizon is under   *)
(* 2 years or the expected withdrawal rate is in the band [2.5%, 4%], and   *)
(* otherwise is at least 40% of the base and never greater than the base.   *)
C22_AdaptiveCountWithinBase ==
  Evaluating =>
    IF savingMonths < 24 \/ RateBorderline
      THEN adaptiveSimulations = params.simulations
      ELSE /\ 10 * adaptiveSimulations >= 4 * params.simulations
           /\ adaptiveSimulations <= params.simulations

(***************************************************************************)
(* The early-exit check of the simulation loop of src/unnamed/part_003 at  *)
(* one checkpoint, and the verdict of lines 810-814 when the loop is left  *)
(* there.  Rates are in thousandths.                                       *)
(***************************************************************************)
MaxCheckpoints == 9

\* the counts getAdaptiveSimulations and the borderline boost give for the
\* base counts 250 and 1000
ExitTotals == { 250, 400, 600, 1000, 1200 }
ExitTargetRates == { 500, 900 }
\* sim at a checkpoint: sim > 0 and sim % 100 = 0
ExitCheckpoints == { CheckInterval * k : k \in 1 .. MaxCheckpoints }
SuccessStep == 10

InitExit ==
  /\ SolverAtRest
  /\ path = NoPath /\ twin = NoTwin
  /\ \E total \in ExitTotals, completed \in ExitCheckpoints,
        targetRate \in ExitTargetRates :
       /\ completed < total
       /\ \E j \in 0 .. (completed \div SuccessStep) :
            call = [fn |-> "shouldExitEarly",
                    successes |-> j * SuccessStep,
                    failures |-> completed - j * SuccessStep,
                    totalSimulations |-> total,
                    targetRate |-> targetRate,
                    returned |-> FALSE]

\* lines 701-706 at sim = successes + failures, and lines 810-814 when the
\* loop is left
ExitCheck ==
  /\ call.fn = "shouldExitEarly" /\ ~ call.returned
  /\ LET stop == shouldExitEarly(call.successes, call.failures,
                                 call.totalSimulations, call.targetRate)
     IN  call' = [fn |-> call.fn,
                  successes |-> call.successes,
                  failures |-> call.failures,
                  totalSimulations |-> call.totalSimulations,
                  targetRate |-> call.targetRate,
                  returned |-> TRUE,
                  stopped |-> stop,
                  accepted |-> stop /\ RateMeetsTarget(call.successes,
                                         call.successes + call.failures,
                                         call.targetRate)]
  /\ UNCHANGED << solverVars, path, twin >>

NextExit == ExitCheck

SpecExit == InitExit /\ [][NextExit]_vars

\* the evaluator left the simulation loop at the checkpoint
StoppedEarly == call.fn = "shouldExitEarly" /\ call.returned /\ call.stopped

\* the paths of the candidate that were not run
PathsNotRun == call.totalSimulations - (call.successes + call.failures)

\* the verdict the candidate gets when the paths not run are run and k of
\* them succeed
VerdictAfterAll(k) ==
  (call.successes + k) * 1000 >= call.targetRate * call.totalSimulations

\* the running rate is below half the target or above 1.2 times the target
RunningRateFarFromTarget ==
  LET completed == call.successes + call.failures
  IN  \/ call.successes * 2000 < call.targetRate * completed
      \/ call.successes * 10000 > 12 * call.targetRate * completed

(* C23 as stated: whenever the evaluator stops a candidate early, the       *)
(* verdict computed from the observed rate equals the verdict that running  *)
(* all remaining paths would give, for every outcome of those paths.        *)
C23_Original ==
  StoppedEarly =>
    \A k \in 0 .. PathsNotRun : call.accepted <=> VerdictAfterAll(k)

(* C23 amended: whenever the evaluator stops a candidate early while the    *)
(* running rate is neither below half the target nor above 1.2 times the    *)
(* target, the verdict computed from the observed rate equals the verdict   *)
(* that running all remaining paths would give, for every outcome of those  *)
(* paths.                                                                   *)
C23_StopOnImpossibilityIsFinal ==
  (StoppedEarly /\ ~ RunningRateFarFromTarget) =>
    \A k \in 0 .. PathsNotRun : call.accepted <=> VerdictAfterAll(k)

\* a stop on the best possible final rate, with the running rate at more than
\* half the target
C23_Witness ==
  /\ StoppedEarly /\ ~ RunningRateFarFromTarget
  /\ ~ call.accepted
  /\ call.successes > 0
  /\ PathsNotRun >= 50

(***************************************************************************)
(* The time-budgeted solver called with any base simulation count the      *)
(* validation lets through: lines 154-197 hold no check of `simulations`.  *)
(***************************************************************************)
ZeroCountParams ==
  { WithFields(b, s, r, 60, m, 0) :
      b \in BalancePairs, s \in SavingsPairs, r \in { 0 },
      m \in { MaxMonths } }

InitAnyCount ==
  /\ params \in AllParams \cup ZeroCountParams
  /\ rng \in RandomSources(params)
  /\ pc = "start"
  /\ elapsed = 0
  /\ low = 0 /\ high = 0 /\ bestSolution = Null
  /\ savingMonths = 0
  /\ expectedPensionAtRetirement = 0 /\ expectedTaxFreeAtRetirement = 0
  /\ adaptiveSimulations = 0 /\ sim = 0
  /\ successfulSimulations = 0 /\ failedSimulations = 0
  /\ left = 0 /\ right = 0 /\ bestResult = Null
  /\ result = Null /\ thrown = "none" /\ faulted = FALSE
  /\ log = {}
  /\ path = NoPath /\ call = NoCall /\ twin = NoTwin

SpecAnyCount == InitAnyCount /\ [][Next]_vars

\* the step that ends the evaluation of a candidate with its verdict
EvaluationEnds == pc = "sims" /\ pc' = "loop"

\* the step that runs paths of the candidate under evaluation
PathsRun == pc = "sims" /\ pc' = "sims"

\* what an evaluation must satisfy: paths counted once each, between 1 and
\* the chosen count of them run, acceptance exactly when successes / run is
\* at least the target, and the projection recorded with an accepted candidate
EvaluationSound ==
  /\ PathsRun =>
       /\ successfulSimulations' >= successfulSimulations
       /\ failedSimulations' >= failedSimulations
       /\ (successfulSimulations' - successfulSimulations)
            + (failedSimulations' - failedSimulations) = sim' - sim
  /\ EvaluationEnds =>
       LET run == successfulSimulations + failedSimulations
           accepted == high' = savingMonths
           growth == MonthlyGrowthFactor(params.annualReturn)
       IN  /\ run = sim
           /\ run >= 1
           /\ run <= adaptiveSimulations
           /\ accepted <=>
                successfulSimulations * 1000 >= params.targetSuccessRate * run
           /\ accepted =>
                bestSolution' =
                  << savingMonths,
                     ExpectedAtRetirement(params.pensionBalance,
                       params.monthlyPensionSavings, growth, savingMonths),
                     ExpectedAtRetirement(params.taxFreeBalance,
                       params.monthlyTaxFreeSavings, growth, savingMonths) >>

RatioArgs(pensionBal, taxFreeBal, targetIncome, ageMonths, taxFreeUsed, monthsRemaining, p) ==
  [pensionBal |-> pensionBal, taxFreeBal |-> taxFreeBal,
   targetIncome |-> targetIncome, ageMonths |-> ageMonths,
   taxFreeUsed |-> taxFreeUsed, monthsRemaining |-> monthsRemaining, p |-> p]

\* the ratio findOptimalWithdrawalRatio passes to calculateWithdrawalWithRatio
refinedRatio(c) ==
  refineOptimalRatio(c, SearchRatios(CoarseRatios, 1, 0, -1, c))

\* the time a ratio survives in the look-ahead, in months
yearsSurvived(c, pensionRatio) ==
  simulateWithdrawalRatio(c.pensionBal, c.taxFreeBal, c.targetIncome,
                          c.ageMonths, c.taxFreeUsed, pensionRatio,
                          c.monthsRemaining, c.p)

RatioPensionBalances == { Money(38000), Money(110000), Money(385000) }
RatioTaxFreeBalances == { Money(162000), Money(305000), Money(390000) }
RatioTargets == { Money(44000), Money(46000), Money(118000) }
RatioAges == { 12 * 62, 12 * 68 }
RatioMonthsRemaining == { 66, 240, 360 }
\* << inflationRate, annualReturn >>
RatioRates == { << 50, 30 >>, << 25, 30 >>, << 50, 70 >> }

InitRatio ==
  /\ SolverAtRest
  /\ path = NoPath /\ twin = NoTwin
  /\ \E pensionBal \in RatioPensionBalances,
        taxFreeBal \in RatioTaxFreeBalances,
        targetIncome \in RatioTargets,
        ageMonths \in RatioAges,
        monthsRemaining \in RatioMonthsRemaining,
        rates \in RatioRates :
       call = [fn |-> "findOptimalWithdrawalRatio",
               args |-> RatioArgs(pensionBal, taxFreeBal, targetIncome,
                          ageMonths, 0, monthsRemaining,
                          [ BaseParams EXCEPT !.inflationRate = rates[1],
                                              !.annualReturn = rates[2] ]),
               returned |-> FALSE]

RatioCall ==
  /\ call.fn = "findOptimalWithdrawalRatio" /\ ~ call.returned
  /\ call' = [fn |-> call.fn, args |-> call.args, returned |-> TRUE,
              ratio |-> refinedRatio(call.args),
              decision |->
                findOptimalWithdrawalRatio(call.args.pensionBal,
                  call.args.taxFreeBal, call.args.targetIncome,
                  call.args.ageMonths, call.args.taxFreeUsed,
                  call.args.monthsRemaining, call.args.p)]
  /\ UNCHANGED << solverVars, path, twin >>

NextRatio == RatioCall

SpecRatio == InitRatio /\ [][NextRatio]_vars

\* the optimizer has returned
RatioReturned == call.fn = "findOptimalWithdrawalRatio" /\ call.returned

\* the coarse grid, 0% to 100% in 10% steps, in thousandths
GridRatios == [ k \in 1 .. 11 |-> 100 * (k - 1) ]

\* the ratios within 8% of r in 2% steps, clamped to [0, 1]
RatiosAround(r) == [ k \in 1 .. 9 |-> Max(0, Min(1000, r - 80 + 20 * (k - 1))) ]

\* the first ratio of a sequence that survives longest
FirstBest(ratios, c) ==
  LET survived == [ k \in 1 .. Len(ratios) |-> yearsSurvived(c, ratios[k]) ]
      first == CHOOSE i \in 1 .. Len(ratios) :
                 /\ \A j \in 1 .. Len(ratios) : survived[i] >= survived[j]
                 /\ \A j \in 1 .. (i - 1) : survived[j] < survived[i]
  IN  ratios[first]

(* C25: the pension ratio of the returned decision survives at least as     *)
(* many look-ahead periods as every ratio of the coarse grid (0% to 100% in *)
(* 10% steps) and of the refinement (within 8% either side of the best      *)
(* coarse ratio in 2% steps, clamped to [0,1]); of the ratios reaching the  *)
(* maximum the first in the order of the tests is kept; and no ratio        *)
(* survives longer than min(yearsRemaining, 25).                            *)
C25_RatioSurvivesLongest ==
  RatioReturned =>
    LET c == call.args
        coarse == FirstBest(GridRatios, c)
        order == GridRatios \o RatiosAround(coarse)
        kept == yearsSurvived(c, call.ratio)
    IN  /\ \A k \in 1 .. Len(order) : kept >= yearsSurvived(c, order[k])
        /\ call.ratio = FirstBest(order, c)
        /\ kept <= Min(c.monthsRemaining, 12 * 25)
        /\ call.decision =
             calculateWithdrawalWithRatio(c.pensionBal, c.taxFreeBal,
               c.targetIncome, c.ageMonths, c.taxFreeUsed, call.ratio)

(* C29: for every decision of the allocator at age 58 or more, on the       *)
(* bisection path and on the ratio path, the net income does not exceed the *)
(* requested target by more than the 2% withdrawal tolerance, unless the    *)
(* state pension alone exceeds the target.                                  *)
C29_NoOverWithdrawal ==
  ( /\ AllocReturned
    /\ call.ageMonths >= 12 * UK_PENSION_ACCESS_AGE
    /\ calculateStatePension(call.ageMonths) * 12 <= call.targetIncome ) =>
    call.decision.netIncome
      <= call.targetIncome + Scale(call.targetIncome, WITHDRAWAL_TOLERANCE)

(***************************************************************************)
(* Termination of the outer binary search of src/unnamed/part_003.         *)
(***************************************************************************)
\* the step that ends an iteration of the loop of line 648: the candidate is
\* skipped at age 95, short-circuited at 4%, accepted or rejected
IterationEnds == log' # log

\* the smallest k with 2^k >= n, for n >= 1
RECURSIVE CeilLog2(_)
CeilLog2(n) == IF n <= 1 THEN 0 ELSE 1 + CeilLog2((n + 1) \div 2)

(* C26: in every iteration of the outer binary search, whatever its         *)
(* outcome (accepted, rejected, short-circuited at 4%, skipped at age 95),  *)
(* the tested midpoint lies strictly between low and high and the gap       *)
(* high - low strictly decreases, so that the loop ends after at most       *)
(* ceil(log2(maxSavingMonths)) + 1 iterations, without the time budget.     *)
C26_SearchTerminates ==
  [][ IterationEnds =>
        /\ low < savingMonths' /\ savingMonths' < high
        /\ high' - low' < high - low
        /\ high' - low' >= 1
        /\ low' = savingMonths' \/ high' = savingMonths'
        /\ Cardinality(log') = Cardinality(log) + 1
        /\ Cardinality(log') <= CeilLog2(params.maxSavingMonths) + 1 ]_vars

\* a search over 600 months that converged, no time check taken, after 10
\* iterations, some accepted and some short-circuited
C26_Witness ==
  /\ SearchCompleted
  /\ elapsed <= TimeLimitMs
  /\ params.maxSavingMonths = DefaultMaxSavingMonths
  /\ Cardinality(log) = 10
  /\ \E e \in log : e.verdict = "accepted"
  /\ \E e \in log : e.verdict = "instantFail"


----------------------------------------------------------------------------
(***************************************************************************)
(* The solver of src/fire_calc.js at the end of the planning horizon.      *)
(***************************************************************************)
\* the call holds no money and saves none
NoFunds ==
  /\ params.pensionBalance = 0 /\ params.taxFreeBalance = 0
  /\ params.monthlyPensionSavings = 0 /\ params.monthlyTaxFreeSavings = 0

\* with no money every path that enters the withdrawal loop fails in its
\* first month (line 532: all balances <= 0 before age 95)
EmptyPathsFail ==
  \A e \in log : WithdrawalMonths(params, e.months) > 0 => e.successes = 0

\* the call of src/fire_calc.js returned a duration
FireReturnedDuration ==
  /\ pc = "done" /\ result # Null
  /\ result # Infeasible /\ result # InternalError

(* C27: a candidate at or beyond the months remaining to age 95 is never    *)
(* counted as a successful retirement, the solver of src/fire_calc.js never *)
(* returns a duration whose retirement start age is >= 95, and with zero    *)
(* balances and zero contributions it returns [-1, 0, 0].                   *)
C27_NoRetirementAtHorizon ==
  /\ \A e \in log :
       WithdrawalMonths(params, e.months) <= 0 => e.successes = 0
  /\ FireReturnedDuration =>
       params.currentAge * 12 + result[1] < TerminalAge * 12
  /\ ( /\ pc = "done" /\ ~ faulted
       /\ FireValidationError(params) = "none"
       /\ NoFunds /\ EmptyPathsFail ) => result = Infeasible


----------------------------------------------------------------------------
(***************************************************************************)
(* The cash buffer of a path of src/unnamed/part_003.                      *)
(***************************************************************************)
\* the cash a path has set aside from its accounts: the locals of a path
\* (lines 718-726) hold two balances, the allowance used, the recent returns
\* and the bear-market counter, and money leaves a balance only as a
\* withdrawal (lines 785-786), so no cash is ever set aside
cashSetAside == 0

\* the accounts and the state pension deliver less than 98% of the target
AccountsShort ==
  /\ Decided
  /\ path.withdrawal.netIncome < ScaleUp(path.targetAmount, 980)

(* C28: under the cash-buffer policy (strategy 3) of src/unnamed/part_003   *)
(* the buffer income credited to a year's net income is backed by money set *)
(* aside from an account balance, so the income paid out never exceeds what *)
(* the accounts and the state pension deliver, and a year in which accounts *)
(* plus state pension deliver less than 98% of the target is marked failed. *)
C28_BufferIncomeBacked ==
  [][ (params.withdrawalStrategy = 3 /\ Decided) =>
        /\ path.bufferAmount <= cashSetAside
        /\ AccountsShort => ~ path'.simulationSuccess
    ]_vars


----------------------------------------------------------------------------
(***************************************************************************)
(* One simulated path of src/fire_calc.js: one turn of the sim loop of     *)
(* simulateRetirement, month by month, with the cash buffer of strategy 3. *)
(* Balances, the buffer and the monthly amounts are in twentieths, returns *)
(* in thousandths a month, ages in months.  The first MaxAccumulationDraws *)
(* months of the accumulation draw their return freely, later ones draw    *)
(* the mean; the first MaxBufferMonths months of the withdrawal phase are  *)
(* followed.                                                               *)
(***************************************************************************)
MaxAccumulationDraws == 1
MaxBufferMonths == 4

BUFFER_MONTHS == 18
BUFFER_MAX_PERCENT == 150
\* BUFFER_ANNUAL_RETURN / 12 = 0.02 / 12 = 1 / 600
BufferInterestDivisor == 600
\* QUARTERLY_REPLENISH_THRESHOLD, in billionths: 0.045, and 1.25 and 1.5
\* times it
QUARTERLY_REPLENISH_THRESHOLD == 45000000

AccumulationDraws == { -1200, 0 }
WithdrawalDraws == { -500, -1, 0, 60 }

\* <<pensionBalance, taxFreeBalance, monthlyWithdrawalNeeded, currentAge,
\*   savingMonths, withdrawalStrategy, inflationRate>>
BufferScenarios ==
  { << 500000, 7600, 2000, 57, 8, 3, 0 >>,
    << 500000, 400000, 2000, 60, 2, 3, 0 >>,
    << 50000, 7600, 2000, 94, 9, 3, 25 >>,
    << 50000, 7600, 2000, 94, 9, 2, 0 >>,
    << 0, 7600, 2000, 94, 9, 3, 0 >> }

BufferParams ==
  { [ BaseParams EXCEPT
        !.pensionBalance = s[1], !.taxFreeBalance = s[2],
        !.monthlyPensionSavings = 0, !.monthlyTaxFreeSavings = 0,
        !.monthlyWithdrawalNeeded = s[3], !.currentAge = s[4],
        !.maxSavingMonths = DefaultMaxSavingMonths,
        !.withdrawalStrategy = s[6], !.inflationRate = s[7] ] :
      s \in BufferScenarios }

BufferSavingMonths(p) ==
  (CHOOSE s \in BufferScenarios :
     /\ s[1] = p.pensionBalance /\ s[2] = p.taxFreeBalance
     /\ s[4] = p.currentAge /\ s[6] = p.withdrawalStrategy
     /\ s[7] = p.inflationRate)[5]

\* baseAmount * Math.pow(1 + inflationRate, monthsElapsed / 12): compounded
\* over the whole years, the months of the running year in proportion
getInflationAdjustedAmount(baseAmount, monthsElapsed, p) ==
  LET whole == Compound(baseAmount, p.inflationRate, monthsElapsed \div 12)
      next == Compound(baseAmount, p.inflationRate, monthsElapsed \div 12 + 1)
  IN  whole + ((next - whole) * (monthsElapsed % 12)) \div 12

\* getStrategyWithdrawalAmount for the strategies 1, 2 and 3: the expected
\* value initialValue * Math.pow(1 + annualReturn / 12, monthsElapsed), and
\* the guardrails of case 2 and case 3 (lines 233-256)
guardrailsWithdrawalAmount(baseAmount, portfolioValue, initialValue, monthsElapsed, p) ==
  LET expectedValue ==
        Compound(initialValue, p.annualReturn \div 12, monthsElapsed)
  IN  IF p.withdrawalStrategy \in { 2, 3 }
           /\ PerformanceBelow(portfolioValue, expectedValue, 800)
        THEN Scale(baseAmount, 900)
        ELSE baseAmount

\* what a monthly gross pension withdrawal leaves after tax, the tax being
\* a twelfth of the annual tax on twelve times the month
MonthlyPensionTax(gross, statePension) ==
  calculateUKIncomeTax((gross + statePension) * 12) \div 12
    - calculateUKIncomeTax(statePension * 12) \div 12

MonthlyBisectionSteps == 20

RECURSIVE MonthlyBisect(_, _, _, _, _)
MonthlyBisect(lo, hi, i, adjustedTarget, statePension) ==
  IF i >= MonthlyBisectionSteps THEN << lo, hi >>
  ELSE LET mid == (lo + hi) \div 2
           netFromPension == mid - MonthlyPensionTax(mid, statePension)
       IN  IF netFromPension = adjustedTarget THEN << lo, hi >>
           ELSE IF netFromPension < adjustedTarget
             THEN MonthlyBisect(mid, hi, i + 1, adjustedTarget, statePension)
             ELSE MonthlyBisect(lo, mid, i + 1, adjustedTarget, statePension)

\* the allocator of src/fire_calc.js, lines 276-341
calculateOptimalWithdrawal(pensionBal, taxFreeBal, targetIncome, ageMonths) ==
  LET statePension == calculateStatePension(ageMonths)
      adjustedTarget == Max(0, targetIncome - statePension)
  IN  IF adjustedTarget <= 0
        THEN [pensionWithdrawal |-> 0, taxFreeWithdrawal |-> 0,
              totalTax |-> 0, netIncome |-> statePension]
      ELSE IF ageMonths < 12 * UK_PENSION_ACCESS_AGE
        THEN [pensionWithdrawal |-> 0,
              taxFreeWithdrawal |-> Min(adjustedTarget, taxFreeBal),
              totalTax |-> 0,
              netIncome |-> Min(adjustedTarget, taxFreeBal) + statePension]
      ELSE LET ends == MonthlyBisect(adjustedTarget,
                         Min(pensionBal, adjustedTarget * 2), 0,
                         adjustedTarget, statePension)
               pensionWithdrawal == Min(pensionBal, (ends[1] + ends[2]) \div 2)
               pensionTax == MonthlyPensionTax(pensionWithdrawal, statePension)
               netFromPension == pensionWithdrawal - pensionTax
               shortfall == Max(0, adjustedTarget - netFromPension)
               taxFreeWithdrawal == Min(shortfall, taxFreeBal)
           IN  [pensionWithdrawal |-> pensionWithdrawal,
                taxFreeWithdrawal |-> taxFreeWithdrawal,
                totalTax |-> pensionTax,
                netIncome |-> netFromPension + taxFreeWithdrawal
                                + statePension]

\* the compound return of the last three months, in billionths
RECURSIVE CompoundFactor(_)
CompoundFactor(returns) ==
  IF returns = << >> THEN 1
  ELSE (1000 + Head(returns)) * CompoundFactor(Tail(returns))

portfolioReturn3Month(recentReturns) ==
  CompoundFactor(recentReturns) - 1000000000

\* lines 497-507: <<replenishThreshold, maxReplenishMultiplier>>
ReplenishRule(bearMarketMonths) ==
  IF bearMarketMonths > 12
    THEN << (QUARTERLY_REPLENISH_THRESHOLD * 3) \div 2, 2 >>
  ELSE IF bearMarketMonths > 6
    THEN << (QUARTERLY_REPLENISH_THRESHOLD * 5) \div 4, 3 >>
  ELSE << QUARTERLY_REPLENISH_THRESHOLD, 4 >>

\* lines 489-526: what the replenishment moves from the tax-free balance
\* to the buffer, 0 when it moves nothing
maxReplenish(b, p) ==
  LET rule == ReplenishRule(b.bearMarketMonths)
      currentBufferTarget ==
        Compound(b.initialBufferTarget, p.inflationRate \div 2,
                 b.month \div 12)
      bufferShortfall == currentBufferTarget - b.cashBuffer
  IN  IF /\ p.withdrawalStrategy = 3
         /\ b.month % 3 = 0 /\ Len(b.recentReturns) = 3
         /\ portfolioReturn3Month(b.recentReturns) > rule[1]
         /\ bufferShortfall > b.need * 2
        THEN Max(0, Min(Min(b.need * rule[2], Scale(b.taxFreeBal, 50)),
                        bufferShortfall))
        ELSE 0

NewBufferPath(p) ==
  [pc |-> "accumulate", month |-> 0,
   pensionBal |-> Money(p.pensionBalance),
   taxFreeBal |-> Money(p.taxFreeBalance),
   cashBuffer |-> 0, initialBufferTarget |-> 0,
   recentReturns |-> << >>, bearMarketMonths |-> 0,
   initialTotalBalance |-> 0, simulationSuccess |-> TRUE,
   currentReturn |-> 0, need |-> 0, useBuffer |-> FALSE,
   bufferAmount |-> 0, targetAmount |-> 0, netIncome |-> 0,
   tested |-> FALSE]

InitBuffer ==
  /\ params \in BufferParams
  /\ savingMonths = BufferSavingMonths(params)
  /\ FireValidationError(params) = "none"
  /\ rng = Free
  /\ pc = "loop"
  /\ elapsed = 0
  /\ low = 0 /\ high = 0 /\ bestSolution = Null
  /\ expectedPensionAtRetirement = 0 /\ expectedTaxFreeAtRetirement = 0
  /\ adaptiveSimulations = 0 /\ sim = 0
  /\ successfulSimulations = 0 /\ failedSimulations = 0
  /\ left = 0 /\ right = params.maxSavingMonths /\ bestResult = Null
  /\ result = Null /\ thrown = "none" /\ faulted = FALSE
  /\ log = {}
  /\ path = NewBufferPath(params) /\ call = NoCall /\ twin = NoTwin

\* retirementStartAge + yearsIntoRetirement, in months
BufferAge == 12 * params.currentAge + savingMonths + path.month

\* line 361: one month of the accumulation
BufferAccumulate ==
  /\ path.pc = "accumulate" /\ path.month < savingMonths
  /\ \E currentReturn \in
          IF path.month < MaxAccumulationDraws THEN AccumulationDraws
          ELSE { params.annualReturn \div 12 } :
       path' = [ path EXCEPT
         !.month = @ + 1,
         !.pensionBal = @ + Scale(@, currentReturn)
                          + Money(params.monthlyPensionSavings),
         !.taxFreeBal = @ + Scale(@, currentReturn)
                          + Money(params.monthlyTaxFreeSavings) ]
  /\ UNCHANGED << pathFrame, successfulSimulations, failedSimulations >>

\* lines 366-383: the balances at retirement and the buffer of strategy 3
BufferRetire ==
  /\ path.pc = "accumulate" /\ path.month = savingMonths
  /\ LET bufferAmount ==
           Money(params.monthlyWithdrawalNeeded) * BUFFER_MONTHS
         maxBufferFromTaxFree == Scale(path.taxFreeBal, BUFFER_MAX_PERCENT)
         buffer == IF params.withdrawalStrategy = 3
                     THEN Min(bufferAmount, maxBufferFromTaxFree)
                     ELSE 0
     IN  path' = [ path EXCEPT
           !.pc = "return", !.month = 0,
           !.initialTotalBalance = path.pensionBal + path.taxFreeBal,
           !.cashBuffer = buffer,
           !.initialBufferTarget = buffer,
           !.taxFreeBal = IF params.withdrawalStrategy = 3
                            THEN Max(0, @ - buffer) ELSE @ ]
  /\ UNCHANGED << pathFrame, successfulSimulations, failedSimulations >>

InMonthLoop ==
  /\ path.month < WithdrawalMonths(params, savingMonths)
  /\ path.simulationSuccess

\* lines 386-419: the return of the month, the interest of the buffer and
\* the rule that the tax-free money lasts until the pension opens
BufferReturn ==
  /\ path.pc = "return" /\ InMonthLoop
  /\ path.month < MaxBufferMonths
  /\ \E currentReturn \in WithdrawalDraws :
       LET taxFreeBal == Max(0, path.taxFreeBal
                                  + Scale(path.taxFreeBal, currentReturn))
           cashBuffer == IF path.cashBuffer > 0
                           THEN path.cashBuffer
                                  + path.cashBuffer \div BufferInterestDivisor
                           ELSE path.cashBuffer
           stranded == /\ BufferAge < 12 * UK_PENSION_ACCESS_AGE
                       /\ taxFreeBal <= 0 /\ cashBuffer <= 0
       IN  path' = [ path EXCEPT
             !.pc = IF stranded THEN "count" ELSE "withdraw",
             !.simulationSuccess = ~ stranded,
             !.currentReturn = currentReturn,
             !.recentReturns =
                IF Len(@) >= 3 THEN Tail(Append(@, currentReturn))
                ELSE Append(@, currentReturn),
             !.bearMarketMonths =
                IF currentReturn < 0 - 10 THEN @ + 1
                ELSE IF currentReturn > 10 THEN Max(0, @ - 1)
                ELSE @,
             !.need = getInflationAdjustedAmount(
                        Money(params.monthlyWithdrawalNeeded), path.month,
                        params),
             !.pensionBal = Max(0, @ + Scale(@, currentReturn)),
             !.taxFreeBal = taxFreeBal,
             !.cashBuffer = cashBuffer,
             !.tested = FALSE ]
  /\ UNCHANGED << pathFrame, successfulSimulations, failedSimulations >>

\* lines 421-485: the draw on the buffer, the target of the investments,
\* the decision of the allocator, the test of the income and the withdrawal
BufferWithdraw ==
  /\ path.pc = "withdraw"
  /\ LET drawsBuffer == /\ params.withdrawalStrategy = 3
                        /\ path.currentReturn < 0 /\ path.cashBuffer > 0
         bufferAmount == IF drawsBuffer THEN Min(path.cashBuffer, path.need)
                         ELSE 0
         useBuffer == drawsBuffer /\ bufferAmount >= path.need
         remaining == IF drawsBuffer /\ ~ useBuffer
                        THEN path.need - bufferAmount ELSE path.need
         targetAmount ==
           IF params.withdrawalStrategy = 3 /\ useBuffer
                /\ ~ (bufferAmount < path.need)
             THEN remaining
             ELSE guardrailsWithdrawalAmount(remaining,
                    path.pensionBal + path.taxFreeBal,
                    path.initialTotalBalance, path.month, params)
         withdrawal ==
           calculateOptimalWithdrawal(path.pensionBal, path.taxFreeBal,
                                      targetAmount, BufferAge)
     IN  IF useBuffer
           THEN path' = [ path EXCEPT
                  !.pc = "replenish", !.useBuffer = TRUE,
                  !.bufferAmount = bufferAmount,
                  !.targetAmount = targetAmount, !.netIncome = 0,
                  !.cashBuffer = @ - path.need ]
         ELSE IF BelowTolerance(withdrawal.netIncome + bufferAmount,
                                targetAmount)
           THEN path' = [ path EXCEPT
                  !.pc = "count", !.useBuffer = FALSE,
                  !.simulationSuccess = FALSE,
                  !.bufferAmount = bufferAmount,
                  !.targetAmount = targetAmount,
                  !.netIncome = withdrawal.netIncome,
                  !.tested = TRUE,
                  !.cashBuffer = @ - bufferAmount ]
           ELSE path' = [ path EXCEPT
                  !.pc = "replenish", !.useBuffer = FALSE,
                  !.bufferAmount = bufferAmount,
                  !.targetAmount = targetAmount,
                  !.netIncome = withdrawal.netIncome,
                  !.tested = TRUE,
                  !.cashBuffer = @ - bufferAmount,
                  !.pensionBal = Max(0, @ - withdrawal.pensionWithdrawal),
                  !.taxFreeBal = Max(0, @ - withdrawal.taxFreeWithdrawal) ]
  /\ UNCHANGED << pathFrame, successfulSimulations, failedSimulations >>

\* lines 487-535: the quarterly replenishment of the buffer, then the test
\* that some money is left; the month ends
BufferReplenish ==
  /\ path.pc = "replenish"
  /\ LET moved == IF path.useBuffer THEN 0 ELSE maxReplenish(path, params)
         taxFreeBal == IF moved > 0 THEN Max(0, path.taxFreeBal - moved)
                       ELSE path.taxFreeBal
         cashBuffer == IF moved > 0 THEN path.cashBuffer + moved
                       ELSE path.cashBuffer
         depleted == /\ path.pensionBal <= 0 /\ taxFreeBal <= 0
                     /\ cashBuffer <= 0
                     /\ BufferAge < 12 * TerminalAge
     IN  path' = [ path EXCEPT
           !.pc = IF depleted THEN "count" ELSE "return",
           !.simulationSuccess = ~ depleted,
           !.month = IF depleted THEN @ ELSE @ + 1,
           !.taxFreeBal = taxFreeBal,
           !.cashBuffer = cashBuffer ]
  /\ UNCHANGED << pathFrame, successfulSimulations, failedSimulations >>

\* the month loop ends at age 95
BufferEndOfPath ==
  /\ path.pc = "return" /\ ~ InMonthLoop
  /\ path' = [ path EXCEPT !.pc = "count" ]
  /\ UNCHANGED << pathFrame, successfulSimulations, failedSimulations >>

\* lines 537-541
BufferCount ==
  /\ path.pc = "count"
  /\ IF path.simulationSuccess
       THEN /\ successfulSimulations' = successfulSimulations + 1
            /\ UNCHANGED failedSimulations
       ELSE /\ failedSimulations' = failedSimulations + 1
            /\ UNCHANGED successfulSimulations
  /\ path' = [ path EXCEPT !.pc = "done" ]
  /\ UNCHANGED pathFrame

NextBuffer ==
  \/ BufferAccumulate
  \/ BufferRetire
  \/ BufferReturn
  \/ BufferWithdraw
  \/ BufferReplenish
  \/ BufferEndOfPath
  \/ BufferCount

SpecBuffer == InitBuffer /\ [][NextBuffer]_vars


(***************************************************************************)
(* Properties of the cash buffer of src/fire_calc.js.                      *)
(***************************************************************************)
\* the step initialises the buffer, or ends a month in which the
\* replenishment may have run
BufferTransfer ==
  \/ path.pc = "accumulate" /\ path'.pc = "return"
  \/ path.pc = "replenish"

\* after the step the income of the month, buffer draw plus net income of
\* the allocator, is below 98% of the inflation-adjusted need of the month
MonthlyIncomeShort ==
  /\ path.pc = "withdraw"
  /\ path'.bufferAmount + path'.netIncome < ScaleUp(path.need, 980)

(* C30: under the cash-buffer policy (strategy 3) of src/fire_calc.js the   *)
(* cash buffer is never negative, the initialisation and the replenishment  *)
(* of the buffer leave the sum of tax-free balance and buffer unchanged,    *)
(* and a month in which buffer draw plus allocator net income is below 98%  *)
(* of the month's inflation-adjusted need marks the path failed, also when  *)
(* the buffer covers only part of the need.                                 *)
C30_BufferAccounting ==
  [][ params.withdrawalStrategy = 3 =>
        /\ path'.cashBuffer >= 0
        /\ BufferTransfer =>
             path'.taxFreeBal + path'.cashBuffer
               = path.taxFreeBal + path.cashBuffer
        /\ MonthlyIncomeShort => ~ path'.simulationSuccess
    ]_vars

====
